---- MODULE Spec2Model ----
(***************************************************************************)
(* Five-stage pipeline engine of riscv_pipeline_sim (core/pipeline.py,     *)
(* core/instructions.py): PipelineCPU.reset, load_program and step, the    *)
(* hazard/forwarding helpers and the one-bit predictor.                    *)
(***************************************************************************)
EXTENDS Integers, Sequences, FiniteSets, TLC

VARIABLES program, pc, cycle, regs, dmem, forwarding, structural_on,
          predictor_mode, predictor_table, retired, stalls, flushes,
          mispredicts, trace, trace_stage_pc, inst_meta, inst_status,
          stall_breakdown, addr_log, IF_ID, ID_EX, EX_MEM, MEM_WB,
          last_events,
          dmem0, recording, clean, prev, last_outcome, wrong_path,
          editing, parse_failure, prev_mode, edited

engine == <<program, pc, cycle, regs, dmem, forwarding, structural_on,
            predictor_mode, predictor_table, retired, stalls, flushes,
            mispredicts, trace, trace_stage_pc, inst_meta, inst_status,
            stall_breakdown, addr_log, IF_ID, ID_EX, EX_MEM, MEM_WB,
            last_events>>

vars == <<engine, dmem0, recording, clean, prev, last_outcome, wrong_path,
          editing, parse_failure, prev_mode, edited>>

----------------------------------------------------------------------------
(* Bounds of the exploration *)

MaxLen == 2
MaxCycle == 16
MaxFuel == 12

(* Program constants *)

NumRegs == 32

----------------------------------------------------------------------------
(* Python Optional[int]: None is the empty tuple, a value v is <<v>>. *)

None == <<>>
Some(v) == <<v>>

\* Python's  x or d : d when x is None or 0
Or(x, d) == IF x = None THEN d ELSE IF x[1] = 0 THEN d ELSE x[1]

\* a dict with no keys
EmptyMap == [k \in {} |-> 0]

\* dict.get(k, d)
Get(m, k, d) == IF k \in DOMAIN m THEN m[k] ELSE d

\* m[k] = v on a dict
Put(m, k, v) == [x \in (DOMAIN m) \cup {k} |-> IF x = k THEN v ELSE m[x]]

----------------------------------------------------------------------------
(* Instruction records *)

Instruction(op, rd, rs1, rs2, imm, tgt, raw) ==
    [op |-> op, rd |-> rd, rs1 |-> rs1, rs2 |-> rs2, imm |-> imm,
     branch_target_idx |-> tgt, raw |-> raw, iid |-> -1]

NOP == [op |-> "nop", rd |-> None, rs1 |-> None, rs2 |-> None, imm |-> None,
        branch_target_idx |-> None, raw |-> "nop", iid |-> -42]

is_nop(ins) == ins.op = "nop"

writes_rd(ins) == ins.op \in {"add", "sub", "lw"}

\* uses_reg without the operands of beq
uses_reg_no_beq(ins, reg) ==
    IF is_nop(ins) \/ reg = 0 THEN FALSE
    ELSE IF ins.op \in {"add", "sub"} THEN Some(reg) \in {ins.rs1, ins.rs2}
    ELSE IF ins.op = "lw" THEN Some(reg) \in {ins.rs1}
    ELSE IF ins.op = "sw" THEN Some(reg) \in {ins.rs1, ins.rs2}
    ELSE FALSE

uses_reg(ins, reg) ==
    IF is_nop(ins) \/ reg = 0 THEN FALSE
    ELSE IF ins.op \in {"add", "sub", "beq"} THEN Some(reg) \in {ins.rs1, ins.rs2}
    ELSE IF ins.op = "lw" THEN Some(reg) \in {ins.rs1}
    ELSE IF ins.op = "sw" THEN Some(reg) \in {ins.rs1, ins.rs2}
    ELSE FALSE

ins_str(ins) == IF is_nop(ins) THEN "NOP" ELSE ins.raw

\* the builders of parse_program, one per accepted line shape
Add(rd, rs1, rs2, raw) == Instruction("add", Some(rd), Some(rs1), Some(rs2), None, None, raw)
Sub(rd, rs1, rs2, raw) == Instruction("sub", Some(rd), Some(rs1), Some(rs2), None, None, raw)
Lw(rd, imm, rs1, raw) == Instruction("lw", Some(rd), Some(rs1), None, Some(imm), None, raw)
Sw(rs2, imm, rs1, raw) == Instruction("sw", None, Some(rs1), Some(rs2), Some(imm), None, raw)
Beq(rs1, rs2, tgt, raw) == Instruction("beq", None, Some(rs1), Some(rs2), None, Some(tgt), raw)
Nop(raw) == Instruction("nop", None, None, None, None, None, raw)

\* parse_program numbers the instructions in textual order (iid)
parse_program(lines) == [i \in 1..Len(lines) |-> [lines[i] EXCEPT !.iid = i - 1]]

----------------------------------------------------------------------------
(* The parser on assembly text.  A text is a sequence of lines; a line is   *)
(* its comment-stripped and trimmed text, as the string quoted in messages  *)
(* (raw) and as the sequence of its pieces (text): words, and each of " ",  *)
(* ",", "(", ")" and ":" on its own, so that separators, the offset(base)   *)
(* shape and a trailing colon can be examined.  A blank or comment-only     *)
(* line has no piece.                                                       *)

Line(raw, text) == [raw |-> raw, text |-> text]

\* line.replace(",", " ").split(): the runs of pieces between separators
RECURSIVE split_from(_, _, _, _)
split_from(text, k, cur, out) ==
    IF k > Len(text) THEN (IF cur = <<>> THEN out ELSE Append(out, cur))
    ELSE IF text[k] \in {" ", ","}
    THEN split_from(text, k + 1, <<>>, IF cur = <<>> THEN out ELSE Append(out, cur))
    ELSE split_from(text, k + 1, Append(cur, text[k]), out)

split(text) == split_from(text, 1, <<>>, <<>>)

\* str.strip()
RECURSIVE strip(_)
strip(text) ==
    IF text = <<>> THEN text
    ELSE IF text[1] = " " THEN strip(Tail(text))
    ELSE IF text[Len(text)] = " " THEN strip(SubSeq(text, 1, Len(text) - 1))
    ELSE text

\* outcome of a parsing function: a value, or the ValueError it raises
\* (its message kind and the source line the message quotes, if any)
Ok(v) == [ok |-> TRUE, val |-> v]
Fail(msg, line) == [ok |-> FALSE, error |-> [msg |-> msg, line |-> line]]

REG_NAMES ==
    <<"x0", "x1", "x2", "x3", "x4", "x5", "x6", "x7", "x8", "x9", "x10",
      "x11", "x12", "x13", "x14", "x15", "x16", "x17", "x18", "x19", "x20",
      "x21", "x22", "x23", "x24", "x25", "x26", "x27", "x28", "x29", "x30",
      "x31">>

\* str.lower() on the spellings that occur in the texts
lower(s) ==
    IF s = "ADD" THEN "add" ELSE IF s = "X0" THEN "x0"
    ELSE IF s = "X1" THEN "x1" ELSE s

\* int(s) / int(s, 16) on the numerals that occur in the texts
IntLiterals ==
    ("0" :> 0) @@ ("1" :> 1) @@ ("2" :> 2) @@ ("4" :> 4) @@ ("5" :> 5)
        @@ ("6" :> 6) @@ ("-1" :> -1) @@ ("0x4" :> 4)

parse_reg(tok) ==
    IF Len(tok) = 1 /\ \E i \in 1..NumRegs : REG_NAMES[i] = lower(tok[1])
    THEN Ok((CHOOSE i \in 1..NumRegs : REG_NAMES[i] = lower(tok[1])) - 1)
    ELSE Fail("Unknown register", None)

parse_int(tok) ==
    IF Len(tok) = 1 /\ tok[1] \in DOMAIN IntLiterals
    THEN Ok(IntLiterals[tok[1]])
    ELSE Fail("invalid literal for int()", None)

\* the offset(base) operand of lw and sw
parse_address(addr, op, raw) ==
    IF ~(\E k \in DOMAIN addr : addr[k] = "(") \/ addr[Len(addr)] # ")"
    THEN Fail(IF op = "lw" THEN "Bad lw address" ELSE "Bad sw address", Some(raw))
    ELSE LET k == CHOOSE j \in DOMAIN addr :
                      addr[j] = "(" /\ \A h \in 1..(j - 1) : addr[h] # "("
             off_str == SubSeq(addr, 1, k - 1)
             reg_str == SubSeq(addr, k + 1, Len(addr))
             rs1 == parse_reg(SubSeq(reg_str, 1, Len(reg_str) - 1))
             imm == parse_int(IF off_str = <<>> THEN <<"0">> ELSE off_str)
         IN  IF ~rs1.ok THEN rs1
             ELSE IF ~imm.ok THEN imm
             ELSE Ok([rs1 |-> rs1.val, imm |-> imm.val])

\* pass 1: a line ending in ":" declares a label at the current instruction count
is_label(line) == line.text[Len(line.text)] = ":"

\* line[:-1].strip()
label_name(line) == strip(SubSeq(line.text, 1, Len(line.text) - 1))

RECURSIVE collect_labels(_, _, _, _)
collect_labels(cleaned, k, count, labels) ==
    IF k > Len(cleaned) THEN Ok(labels)
    ELSE IF is_label(cleaned[k])
    THEN IF label_name(cleaned[k]) = <<>> THEN Fail("Empty label name", None)
         ELSE collect_labels(cleaned, k + 1, count,
                             Put(labels, label_name(cleaned[k]), count))
    ELSE collect_labels(cleaned, k + 1, count + 1, labels)

\* pass 2, one line: the Instruction built from it, or the error raised
\* (toks[0] of a line of separators only raises IndexError)
parse_line(line, labels) ==
    LET raw == line.raw
        toks == split(line.text)
        op == IF Len(toks[1]) = 1 THEN lower(toks[1][1]) ELSE "?"
    IN  IF toks = <<>> THEN Fail("list index out of range", None)
        ELSE IF op = "nop" THEN Ok(Nop(raw))
        ELSE IF op \in {"add", "sub"}
        THEN IF Len(toks) # 4
             THEN Fail(IF op = "add" THEN "Bad add format" ELSE "Bad sub format",
                       Some(raw))
             ELSE LET rd == parse_reg(toks[2])
                      rs1 == parse_reg(toks[3])
                      rs2 == parse_reg(toks[4])
                  IN  IF ~rd.ok THEN rd
                      ELSE IF ~rs1.ok THEN rs1
                      ELSE IF ~rs2.ok THEN rs2
                      ELSE IF op = "add"
                      THEN Ok(Add(rd.val, rs1.val, rs2.val, raw))
                      ELSE Ok(Sub(rd.val, rs1.val, rs2.val, raw))
        ELSE IF op = "lw"
        THEN IF Len(toks) # 3 THEN Fail("Bad lw format", Some(raw))
             ELSE LET rd == parse_reg(toks[2])
                      addr == parse_address(toks[3], op, raw)
                  IN  IF ~rd.ok THEN rd
                      ELSE IF ~addr.ok THEN addr
                      ELSE Ok(Lw(rd.val, addr.val.imm, addr.val.rs1, raw))
        ELSE IF op = "sw"
        THEN IF Len(toks) # 3 THEN Fail("Bad sw format", Some(raw))
             ELSE LET rs2 == parse_reg(toks[2])
                      addr == parse_address(toks[3], op, raw)
                  IN  IF ~rs2.ok THEN rs2
                      ELSE IF ~addr.ok THEN addr
                      ELSE Ok(Sw(rs2.val, addr.val.imm, addr.val.rs1, raw))
        ELSE IF op = "beq"
        THEN IF Len(toks) # 4 THEN Fail("Bad beq format", Some(raw))
             ELSE LET rs1 == parse_reg(toks[2])
                      rs2 == parse_reg(toks[3])
                      label == toks[4]
                      target_idx ==
                          IF label \in DOMAIN labels THEN Ok(labels[label])
                          ELSE IF parse_int(toks[4]).ok THEN parse_int(toks[4])
                          ELSE Fail("Unknown label", Some(raw))
                  IN  IF ~rs1.ok THEN rs1
                      ELSE IF ~rs2.ok THEN rs2
                      ELSE IF ~target_idx.ok THEN target_idx
                      ELSE Ok(Beq(rs1.val, rs2.val, target_idx.val, raw))
        ELSE Fail("Unsupported op", Some(raw))

\* parse_program on a text: the numbered program, or the first error raised
parse_program_text(asm_text) ==
    LET cleaned == SelectSeq(asm_text, LAMBDA ln : ln.text # <<>>)
        labels == collect_labels(cleaned, 1, 0, EmptyMap)
        ops == SelectSeq(cleaned, LAMBDA ln : ~is_label(ln))
        built == [i \in DOMAIN ops |-> parse_line(ops[i], labels.val)]
        bad == {i \in DOMAIN ops : ~built[i].ok}
    IN  IF ~labels.ok THEN labels
        ELSE IF bad # {}
        THEN built[CHOOSE i \in bad : \A j \in bad : i <= j]
        ELSE Ok(parse_program([i \in DOMAIN ops |-> built[i].val]))

----------------------------------------------------------------------------
(* Latches, as their dataclass defaults *)

LatchIFID == [instr |-> NOP, pc |-> 0, predicted_taken |-> FALSE]

LatchIDEX == [instr |-> NOP, pc |-> 0, rs1 |-> 0, rs2 |-> 0, rd |-> 0,
              imm |-> 0, val1 |-> 0, val2 |-> 0, predicted_taken |-> FALSE]

LatchEXMEM == [instr |-> NOP, pc |-> 0, rd |-> 0, alu |-> 0, store_val |-> 0,
               branch_taken |-> FALSE, branch_target |-> 0,
               predicted_taken |-> FALSE]

LatchMEMWB == [instr |-> NOP, pc |-> 0, rd |-> 0, wb_val |-> 0, alu |-> 0,
               mem_read_val |-> 0]

----------------------------------------------------------------------------
(* Helpers of PipelineCPU *)

_fetch_wraps(p) ==
    IF Len(program) = 0 THEN NOP ELSE program[(p % Len(program)) + 1]

_fetch(p) == IF 0 <= p /\ p < Len(program) THEN program[p + 1] ELSE NOP

_alu_compute(instr, a, b) ==
    IF instr.op = "add" THEN a + b
    ELSE IF instr.op = "sub" THEN a - b
    ELSE IF instr.op \in {"lw", "sw"} THEN a + Or(instr.imm, 0)
    ELSE 0

_read_reg(rf, idx) == IF idx = 0 THEN 0 ELSE rf[idx]

\* _forward_get with MEM/WB tested before EX/MEM
_forward_get_mem_wb_first(src_reg, default_val) ==
    IF ~forwarding \/ src_reg = 0
    THEN [val |-> default_val, src |-> "none"]
    ELSE IF ~is_nop(MEM_WB.instr) /\ writes_rd(MEM_WB.instr)
            /\ MEM_WB.rd = src_reg
    THEN [val |-> MEM_WB.wb_val, src |-> "MEM/WB"]
    ELSE IF ~is_nop(EX_MEM.instr) /\ writes_rd(EX_MEM.instr)
            /\ EX_MEM.rd = src_reg /\ EX_MEM.instr.op # "lw"
    THEN [val |-> EX_MEM.alu, src |-> "EX/MEM"]
    ELSE [val |-> default_val, src |-> "none"]

_forward_get_x0(src_reg, default_val) ==
    IF ~forwarding
    THEN [val |-> default_val, src |-> "none"]
    ELSE IF ~is_nop(EX_MEM.instr) /\ writes_rd(EX_MEM.instr)
            /\ EX_MEM.rd = src_reg /\ EX_MEM.instr.op # "lw"
    THEN [val |-> EX_MEM.alu, src |-> "EX/MEM"]
    ELSE IF ~is_nop(MEM_WB.instr) /\ writes_rd(MEM_WB.instr)
            /\ MEM_WB.rd = src_reg
    THEN [val |-> MEM_WB.wb_val, src |-> "MEM/WB"]
    ELSE [val |-> default_val, src |-> "none"]

_forward_get(src_reg, default_val) ==
    IF ~forwarding \/ src_reg = 0
    THEN [val |-> default_val, src |-> "none"]
    ELSE IF ~is_nop(EX_MEM.instr) /\ writes_rd(EX_MEM.instr)
            /\ EX_MEM.rd = src_reg /\ EX_MEM.instr.op # "lw"
    THEN [val |-> EX_MEM.alu, src |-> "EX/MEM"]
    ELSE IF ~is_nop(MEM_WB.instr) /\ writes_rd(MEM_WB.instr)
            /\ MEM_WB.rd = src_reg
    THEN [val |-> MEM_WB.wb_val, src |-> "MEM/WB"]
    ELSE [val |-> default_val, src |-> "none"]

\* the hazard-detail dict built by _detect_stall_decode
hazard_detail ==
    [producer_pc |-> IF is_nop(ID_EX.instr) THEN None ELSE Some(ID_EX.pc),
     producer_op |-> IF is_nop(ID_EX.instr) THEN "" ELSE ID_EX.instr.op,
     producer_rd |-> IF is_nop(ID_EX.instr) THEN None ELSE ID_EX.instr.rd,
     consumer_op |-> IF_ID.instr.op,
     uses |-> <<Or(IF_ID.instr.rs1, 0), Or(IF_ID.instr.rs2, 0)>>]

\* RAW tested against the oldest producer first
raw_stall_oldest_first ==
    IF ~is_nop(MEM_WB.instr) /\ writes_rd(MEM_WB.instr) /\ MEM_WB.rd # 0
          /\ uses_reg(IF_ID.instr, MEM_WB.rd)
    THEN [stall |-> TRUE, reason |-> "RAW vs WB", detail |-> Some(hazard_detail)]
    ELSE IF ~is_nop(EX_MEM.instr) /\ writes_rd(EX_MEM.instr) /\ EX_MEM.rd # 0
          /\ uses_reg(IF_ID.instr, EX_MEM.rd)
    THEN [stall |-> TRUE, reason |-> "RAW vs MEM", detail |-> Some(hazard_detail)]
    ELSE IF ~is_nop(ID_EX.instr) /\ writes_rd(ID_EX.instr) /\ Or(ID_EX.instr.rd, 0) # 0
          /\ uses_reg(IF_ID.instr, Or(ID_EX.instr.rd, 0))
    THEN [stall |-> TRUE, reason |-> "RAW vs EX", detail |-> Some(hazard_detail)]
    ELSE [stall |-> FALSE, reason |-> "", detail |-> Some(hazard_detail)]

\* RAW against ID/EX, EX/MEM and MEM/WB, as checked with forwarding off
raw_stall ==
    IF ~is_nop(ID_EX.instr) /\ writes_rd(ID_EX.instr) /\ Or(ID_EX.instr.rd, 0) # 0
          /\ uses_reg(IF_ID.instr, Or(ID_EX.instr.rd, 0))
    THEN [stall |-> TRUE, reason |-> "RAW vs EX", detail |-> Some(hazard_detail)]
    ELSE IF ~is_nop(EX_MEM.instr) /\ writes_rd(EX_MEM.instr) /\ EX_MEM.rd # 0
          /\ uses_reg(IF_ID.instr, EX_MEM.rd)
    THEN [stall |-> TRUE, reason |-> "RAW vs MEM", detail |-> Some(hazard_detail)]
    ELSE IF ~is_nop(MEM_WB.instr) /\ writes_rd(MEM_WB.instr) /\ MEM_WB.rd # 0
          /\ uses_reg(IF_ID.instr, MEM_WB.rd)
    THEN [stall |-> TRUE, reason |-> "RAW vs WB", detail |-> Some(hazard_detail)]
    ELSE [stall |-> FALSE, reason |-> "", detail |-> Some(hazard_detail)]

\* RAW against ID/EX and EX/MEM only
raw_stall_no_wb ==
    IF ~is_nop(ID_EX.instr) /\ writes_rd(ID_EX.instr) /\ Or(ID_EX.instr.rd, 0) # 0
          /\ uses_reg(IF_ID.instr, Or(ID_EX.instr.rd, 0))
    THEN [stall |-> TRUE, reason |-> "RAW vs EX", detail |-> Some(hazard_detail)]
    ELSE IF ~is_nop(EX_MEM.instr) /\ writes_rd(EX_MEM.instr) /\ EX_MEM.rd # 0
          /\ uses_reg(IF_ID.instr, EX_MEM.rd)
    THEN [stall |-> TRUE, reason |-> "RAW vs MEM", detail |-> Some(hazard_detail)]
    ELSE [stall |-> FALSE, reason |-> "", detail |-> Some(hazard_detail)]

\* a load-use test that also holds the consumer while the lw is in EX/MEM
lw_use_stall_two_cycles ==
    IF ~is_nop(ID_EX.instr) /\ ID_EX.instr.op = "lw" /\ Or(ID_EX.instr.rd, 0) # 0
          /\ uses_reg(IF_ID.instr, Or(ID_EX.instr.rd, 0))
    THEN [stall |-> TRUE, reason |-> "lw-use", detail |-> Some(hazard_detail)]
    ELSE IF ~is_nop(EX_MEM.instr) /\ EX_MEM.instr.op = "lw" /\ EX_MEM.rd # 0
          /\ uses_reg(IF_ID.instr, EX_MEM.rd)
    THEN [stall |-> TRUE, reason |-> "lw-use", detail |-> Some(hazard_detail)]
    ELSE [stall |-> FALSE, reason |-> "", detail |-> Some(hazard_detail)]

\* the load-use test, as checked with forwarding on
lw_use_stall ==
    IF ~is_nop(ID_EX.instr) /\ ID_EX.instr.op = "lw" /\ Or(ID_EX.instr.rd, 0) # 0
          /\ uses_reg(IF_ID.instr, Or(ID_EX.instr.rd, 0))
    THEN [stall |-> TRUE, reason |-> "lw-use", detail |-> Some(hazard_detail)]
    ELSE [stall |-> FALSE, reason |-> "", detail |-> Some(hazard_detail)]

_detect_stall_decode_no_lw_use ==
    IF is_nop(IF_ID.instr)
    THEN [stall |-> FALSE, reason |-> "", detail |-> None]
    ELSE IF forwarding
    THEN [stall |-> FALSE, reason |-> "", detail |-> Some(hazard_detail)]
    ELSE raw_stall

_detect_stall_decode_no_wb ==
    IF is_nop(IF_ID.instr)
    THEN [stall |-> FALSE, reason |-> "", detail |-> None]
    ELSE IF forwarding THEN lw_use_stall
    ELSE raw_stall_no_wb

_detect_stall_decode ==
    IF is_nop(IF_ID.instr)
    THEN [stall |-> FALSE, reason |-> "", detail |-> None]
    ELSE IF forwarding THEN lw_use_stall
    ELSE raw_stall

_predict_taken_static_taken(instr, p) ==
    IF is_nop(instr) \/ instr.op # "beq" THEN FALSE
    ELSE IF predictor_mode = "none" THEN FALSE
    ELSE IF predictor_mode = "static_nt" THEN TRUE
    ELSE IF predictor_mode = "onebit" THEN Get(predictor_table, p, FALSE)
    ELSE FALSE

_predict_taken(instr, p) ==
    IF is_nop(instr) \/ instr.op # "beq" THEN FALSE
    ELSE IF predictor_mode = "none" THEN FALSE
    ELSE IF predictor_mode = "static_nt" THEN FALSE
    ELSE IF predictor_mode = "onebit" THEN Get(predictor_table, p, FALSE)
    ELSE FALSE

----------------------------------------------------------------------------
(* One cycle: the sub-steps of PipelineCPU.step, each computed from the    *)
(* latches as they are at the start of the cycle                           *)

\* stage occupancy at the start of the cycle
pcs_start ==
    [IF |-> IF is_nop(IF_ID.instr) THEN None ELSE Some(IF_ID.pc),
     ID |-> IF is_nop(ID_EX.instr) THEN None ELSE Some(ID_EX.pc),
     EX |-> IF is_nop(EX_MEM.instr) THEN None ELSE Some(EX_MEM.pc),
     MEM |-> IF is_nop(EX_MEM.instr) THEN None ELSE Some(EX_MEM.pc),
     WB |-> IF is_nop(MEM_WB.instr) THEN None ELSE Some(MEM_WB.pc)]

\* WB: commit the instruction in MEM/WB
wb_retired_counts_nop == retired + 1

wb_retired == IF ~is_nop(MEM_WB.instr) THEN retired + 1 ELSE retired

wb_status ==
    IF ~is_nop(MEM_WB.instr) /\ MEM_WB.pc \in DOMAIN inst_status
    THEN [inst_status EXCEPT ![MEM_WB.pc] =
              [retired |-> TRUE, retire_cycle |-> Some(cycle), last_stage |-> "WB"]]
    ELSE inst_status

wb_regs ==
    IF ~is_nop(MEM_WB.instr) /\ writes_rd(MEM_WB.instr) /\ MEM_WB.rd # 0
    THEN [regs EXCEPT ![MEM_WB.rd] = MEM_WB.wb_val]
    ELSE regs

\* the register file at the end of the cycle: x0 stays zero
next_regs == [wb_regs EXCEPT ![0] = 0]

\* Hazards for ID
stall_decode == _detect_stall_decode.stall

\* EX
a_val == _forward_get(ID_EX.rs1, ID_EX.val1)
b_val == _forward_get(ID_EX.rs2, ID_EX.val2)

next_EX_MEM ==
    LET ex_instr == ID_EX.instr
        base == [instr |-> ex_instr, pc |-> ID_EX.pc, rd |-> ID_EX.rd,
                 alu |-> 0, store_val |-> 0, branch_taken |-> FALSE,
                 branch_target |-> 0,
                 predicted_taken |-> ID_EX.predicted_taken]
    IN  IF is_nop(ex_instr) THEN base
        ELSE IF ex_instr.op = "beq"
        THEN [base EXCEPT !.branch_taken = (a_val.val = b_val.val),
                          !.branch_target = Or(ex_instr.branch_target_idx, 0)]
        ELSE IF ex_instr.op = "sw"
        THEN [base EXCEPT !.alu = _alu_compute(ex_instr, a_val.val, b_val.val),
                          !.store_val = _forward_get(ID_EX.rs2, ID_EX.val2).val]
        ELSE [base EXCEPT !.alu = _alu_compute(ex_instr, a_val.val, b_val.val)]

ex_log ==
    IF is_nop(ID_EX.instr) THEN <<>>
    ELSE IF ID_EX.instr.op = "beq"
    THEN <<[cycle |-> cycle, kind |-> "branch_cmp", pc |-> ID_EX.pc,
            a |-> a_val.val, b |-> b_val.val, taken |-> next_EX_MEM.branch_taken]>>
    ELSE <<[cycle |-> cycle, kind |-> "alu", pc |-> ID_EX.pc, op |-> ID_EX.instr.op,
            a |-> a_val.val, b |-> b_val.val, alu |-> next_EX_MEM.alu]>>

\* MEM that drops a resolved beq instead of passing it on
next_MEM_WB_drops_beq ==
    LET cur == EX_MEM
        base == [instr |-> cur.instr, pc |-> cur.pc, rd |-> cur.rd,
                 wb_val |-> 0, alu |-> cur.alu, mem_read_val |-> 0]
    IN  IF is_nop(cur.instr) THEN base
        ELSE IF cur.instr.op = "beq" THEN LatchMEMWB
        ELSE IF cur.instr.op = "lw"
        THEN [base EXCEPT !.mem_read_val = Get(dmem, cur.alu, 0),
                          !.wb_val = Get(dmem, cur.alu, 0)]
        ELSE IF cur.instr.op \in {"add", "sub"}
        THEN [base EXCEPT !.wb_val = cur.alu]
        ELSE base

\* MEM
next_MEM_WB ==
    LET cur == EX_MEM
        base == [instr |-> cur.instr, pc |-> cur.pc, rd |-> cur.rd,
                 wb_val |-> 0, alu |-> cur.alu, mem_read_val |-> 0]
    IN  IF is_nop(cur.instr) THEN base
        ELSE IF cur.instr.op = "lw"
        THEN [base EXCEPT !.mem_read_val = Get(dmem, cur.alu, 0),
                          !.wb_val = Get(dmem, cur.alu, 0)]
        ELSE IF cur.instr.op \in {"add", "sub"}
        THEN [base EXCEPT !.wb_val = cur.alu]
        ELSE base

\* a memory in which a load creates the entry it reads
mem_dmem_lw_creates ==
    IF ~is_nop(EX_MEM.instr) /\ EX_MEM.instr.op = "sw"
    THEN Put(dmem, EX_MEM.alu, EX_MEM.store_val)
    ELSE IF ~is_nop(EX_MEM.instr) /\ EX_MEM.instr.op = "lw"
    THEN Put(dmem, EX_MEM.alu, Get(dmem, EX_MEM.alu, 0))
    ELSE dmem

mem_dmem ==
    IF ~is_nop(EX_MEM.instr) /\ EX_MEM.instr.op = "sw"
    THEN Put(dmem, EX_MEM.alu, EX_MEM.store_val)
    ELSE dmem

mem_log ==
    IF is_nop(EX_MEM.instr) THEN <<>>
    ELSE IF EX_MEM.instr.op = "lw"
    THEN <<[cycle |-> cycle, kind |-> "lw", pc |-> EX_MEM.pc, addr |-> EX_MEM.alu,
            val |-> Get(dmem, EX_MEM.alu, 0)]>>
    ELSE IF EX_MEM.instr.op = "sw"
    THEN <<[cycle |-> cycle, kind |-> "sw", pc |-> EX_MEM.pc, addr |-> EX_MEM.alu,
            val |-> EX_MEM.store_val]>>
    ELSE <<>>

\* ID -> next ID/EX (registers are read after this cycle's writeback)
\* a decode that lets the stalled instruction through instead of a bubble
next_ID_EX_no_bubble ==
    IF is_nop(IF_ID.instr) THEN LatchIDEX
    ELSE LET id_instr == IF_ID.instr
             rs1 == Or(id_instr.rs1, 0)
             rs2 == Or(id_instr.rs2, 0)
         IN  [instr |-> id_instr, pc |-> IF_ID.pc,
              rs1 |-> rs1, rs2 |-> rs2, rd |-> Or(id_instr.rd, 0),
              imm |-> Or(id_instr.imm, 0),
              val1 |-> _read_reg(wb_regs, rs1),
              val2 |-> _read_reg(wb_regs, rs2),
              predicted_taken |-> IF id_instr.op = "beq"
                                  THEN IF_ID.predicted_taken ELSE FALSE]

\* a decode that reads the register file as it was before this cycle's
\* writeback
next_ID_EX_reads_before_wb ==
    IF stall_decode THEN LatchIDEX
    ELSE IF is_nop(IF_ID.instr) THEN LatchIDEX
    ELSE LET id_instr == IF_ID.instr
             rs1 == Or(id_instr.rs1, 0)
             rs2 == Or(id_instr.rs2, 0)
         IN  [instr |-> id_instr, pc |-> IF_ID.pc,
              rs1 |-> rs1, rs2 |-> rs2, rd |-> Or(id_instr.rd, 0),
              imm |-> Or(id_instr.imm, 0),
              val1 |-> _read_reg(regs, rs1),
              val2 |-> _read_reg(regs, rs2),
              predicted_taken |-> IF id_instr.op = "beq"
                                  THEN IF_ID.predicted_taken ELSE FALSE]

next_ID_EX ==
    IF stall_decode THEN LatchIDEX
    ELSE IF is_nop(IF_ID.instr) THEN LatchIDEX
    ELSE LET id_instr == IF_ID.instr
             rs1 == Or(id_instr.rs1, 0)
             rs2 == Or(id_instr.rs2, 0)
         IN  [instr |-> id_instr, pc |-> IF_ID.pc,
              rs1 |-> rs1, rs2 |-> rs2, rd |-> Or(id_instr.rd, 0),
              imm |-> Or(id_instr.imm, 0),
              val1 |-> _read_reg(wb_regs, rs1),
              val2 |-> _read_reg(wb_regs, rs2),
              predicted_taken |-> IF id_instr.op = "beq"
                                  THEN IF_ID.predicted_taken ELSE FALSE]

\* IF: structural hazard and prediction
structural_stall_always ==
    ~is_nop(EX_MEM.instr) /\ EX_MEM.instr.op \in {"lw", "sw"}

\* the structural test looking at the instruction in MEM/WB
structural_stall_late ==
    structural_on /\ ~is_nop(MEM_WB.instr) /\ MEM_WB.instr.op \in {"lw", "sw"}

structural_stall ==
    structural_on /\ ~is_nop(EX_MEM.instr) /\ EX_MEM.instr.op \in {"lw", "sw"}

fetch_stall == stall_decode \/ structural_stall

fetch_IF_ID ==
    IF ~fetch_stall
    THEN [instr |-> _fetch(pc), pc |-> pc,
          predicted_taken |-> _predict_taken(_fetch(pc), pc)]
    ELSE [instr |-> IF_ID.instr, pc |-> pc,
          predicted_taken |-> IF_ID.predicted_taken]

fetch_pc_next ==
    IF ~fetch_stall
    THEN IF _predict_taken(_fetch(pc), pc) /\ _fetch(pc).op = "beq"
         THEN Or(_fetch(pc).branch_target_idx, pc + 1)
         ELSE pc + 1
    ELSE pc

\* Branch resolution in EX
resolves == next_EX_MEM.instr.op = "beq" /\ ~is_nop(next_EX_MEM.instr)

mispredicted_inverted ==
    resolves /\ next_EX_MEM.branch_taken = next_EX_MEM.predicted_taken

mispredicted ==
    resolves /\ next_EX_MEM.branch_taken # next_EX_MEM.predicted_taken

next_predictor_table ==
    IF resolves /\ predictor_mode = "onebit"
    THEN Put(predictor_table, ID_EX.pc, next_EX_MEM.branch_taken)
    ELSE predictor_table

next_pc ==
    IF mispredicted
    THEN IF next_EX_MEM.branch_taken THEN next_EX_MEM.branch_target
         ELSE ID_EX.pc + 1
    ELSE fetch_pc_next

next_IF_ID ==
    IF mispredicted
    THEN [instr |-> NOP, pc |-> pc, predicted_taken |-> FALSE]
    ELSE fetch_IF_ID

\* counters
next_stalls_decode_only == stalls + (IF stall_decode THEN 1 ELSE 0)

next_stalls ==
    stalls + (IF stall_decode THEN 1 ELSE 0) + (IF structural_stall THEN 1 ELSE 0)

Bump(m, k) == Put(m, k, Get(m, k, 0) + 1)

\* a histogram that leaves the structural stall out
next_stall_breakdown_decode_only ==
    IF stall_decode
    THEN Bump(stall_breakdown, _detect_stall_decode.reason)
    ELSE stall_breakdown

next_stall_breakdown ==
    LET d == IF stall_decode
             THEN Bump(stall_breakdown, _detect_stall_decode.reason)
             ELSE stall_breakdown
    IN  IF structural_stall THEN Bump(d, "structural") ELSE d

next_last_events ==
    [stall |-> stall_decode,
     stall_reason |-> IF stall_decode THEN _detect_stall_decode.reason ELSE "",
     hazard_detail |-> IF stall_decode THEN _detect_stall_decode.detail ELSE None,
     branch_taken |-> resolves /\ next_EX_MEM.branch_taken,
     mispredict |-> mispredicted,
     structural_stall |-> structural_stall,
     fwd_a |-> a_val.src, fwd_b |-> b_val.src]

\* last_stage annotation of the instructions visible at the start of the cycle
Annotate(status, st, pcv) ==
    IF pcv # None /\ pcv[1] \in DOMAIN status
    THEN [status EXCEPT ![pcv[1]].last_stage = st]
    ELSE status

next_inst_status ==
    Annotate(Annotate(Annotate(Annotate(Annotate(wb_status,
        "IF", pcs_start.IF), "ID", pcs_start.ID), "EX", pcs_start.EX),
        "MEM", pcs_start.MEM), "WB", pcs_start.WB)

\* the stage -> text row appended to the trace
snap ==
    [IF |-> ins_str(next_IF_ID.instr), ID |-> ins_str(next_ID_EX.instr),
     EX |-> ins_str(next_EX_MEM.instr), MEM |-> ins_str(next_MEM_WB.instr),
     WB |-> ins_str(next_MEM_WB.instr)]

\* the logs after the cycle: one row appended to each
next_trace_stage_pc == Append(trace_stage_pc, pcs_start)

next_trace_rewrites ==
    IF trace = <<>> THEN <<snap>> ELSE [trace EXCEPT ![Len(trace)] = snap]

next_trace == Append(trace, snap)

----------------------------------------------------------------------------
(* History of the run, kept beside the engine state                        *)
(*   dmem0         data memory as poked before the first cycle             *)
(*   last_outcome  iid of a beq -> outcome of its latest resolution, and   *)
(*                 whether that instruction was fetched again since        *)
(*   wrong_path    latches (by the stage they feed) that hold an           *)
(*                 instruction fetched right behind a branch that then     *)
(*                 resolved taken against a not-taken prediction; "WB"     *)
(*                 once such an instruction has been written back          *)
(*   clean, prev   the run so far is load_program + step()s only; the      *)
(*                 snapshot of the previous such run of the same program   *)
(*   prev_mode     the predictor mode of the run recorded in prev          *)
(*   editing       the session also submits texts the parser rejects       *)
(*   edited        a switch or a memory word was changed after the first   *)
(*                 cycle of the current run                                *)
(*   parse_failure the handler whose parse_program call has just raised,   *)
(*                 and the error; None after any other operation           *)

Advance(st) == IF st = "ID" THEN "EX" ELSE IF st = "EX" THEN "MEM" ELSE "WB"

next_last_outcome ==
    LET fetched == _fetch(pc)
        seen == IF ~fetch_stall /\ fetched.iid \in DOMAIN last_outcome
                THEN [last_outcome EXCEPT ![fetched.iid].refetched = TRUE]
                ELSE last_outcome
    IN  IF resolves
        THEN Put(seen, ID_EX.instr.iid,
                 [taken |-> next_EX_MEM.branch_taken, refetched |-> FALSE])
        ELSE seen

next_wrong_path ==
    {Advance(st) : st \in wrong_path \ {"WB"}}
        \cup (IF mispredicted /\ next_EX_MEM.branch_taken
                 /\ next_EX_MEM.branch_target # ID_EX.instr.iid + 1
                 /\ ~is_nop(IF_ID.instr)
                 /\ IF_ID.instr.iid = ID_EX.instr.iid + 1
                 /\ next_ID_EX.instr = IF_ID.instr
              THEN {"ID"} ELSE {})

----------------------------------------------------------------------------
(* Inputs: program texts, memory pokes, configurations *)

InstrSet ==
    { Lw(1, 0, 0, "lw x1,0(x0)"),
      Add(2, 1, 1, "add x2,x1,x1"),
      Sub(1, 1, 2, "sub x1,x1,x2"),
      Sw(2, 1, 0, "sw x2,1(x0)"),
      Add(0, 1, 1, "add x0,x1,x1"),
      Beq(1, 0, 0, "beq x1,x0,0"),
      Beq(1, 0, 2, "beq x1,x0,2"),
      Nop("nop") }

RECURSIVE Texts(_)
Texts(n) ==
    IF n = 0 THEN {<<>>}
    ELSE {Append(t, i) : t \in Texts(n - 1), i \in InstrSet}

LoadUseText == <<Lw(1, 0, 0, "lw x1,0(x0)"), Add(2, 1, 1, "add x2,x1,x1")>>

RawChainText == <<Add(1, 0, 0, "add x1,x0,x0"), Add(2, 1, 1, "add x2,x1,x1"),
                  Add(3, 2, 2, "add x3,x2,x2")>>

\* lw, a write to x0, and a reader of x0 right behind it
ZeroRegText == <<Lw(1, 0, 0, "lw x1,0(x0)"), Add(0, 1, 1, "add x0,x1,x1"),
                 Sw(1, 1, 0, "sw x1,1(x0)")>>

\* a backward branch held in IF/ID by the load in front of it
LoopText == <<Lw(1, 0, 0, "lw x1,0(x0)"), Beq(1, 0, 0, "beq x1,x0,0")>>

\* a branch at index 1 that targets itself
SelfLoopText == <<Nop("nop"), Beq(0, 0, 1, "beq x0,x0,1")>>

\* three independent instructions
StraightText == <<Lw(1, 0, 0, "lw x1,0(x0)"), Sw(2, 1, 0, "sw x2,1(x0)"),
                  Sub(3, 0, 0, "sub x3,x0,x0")>>

\* two producers of x1 in a row, then a consumer of x1
TieBreakText == <<Lw(2, 0, 0, "lw x2,0(x0)"), Add(1, 2, 2, "add x1,x2,x2"),
                  Add(1, 1, 2, "add x1,x1,x2"), Add(3, 1, 1, "add x3,x1,x1")>>

\* three memory operations in a row
PortClashText == <<Lw(1, 0, 0, "lw x1,0(x0)"), Lw(1, 0, 0, "lw x1,0(x0)"),
                   Lw(1, 0, 0, "lw x1,0(x0)")>>

\* a store followed by a load of the word it wrote, the address formed
\* from a base register that holds the loaded value
StoreLoadText == <<Lw(1, 0, 0, "lw x1,0(x0)"), Add(2, 1, 1, "add x2,x1,x1"),
                   Sw(2, 0, 1, "sw x2,0(x1)"), Lw(3, 5, 0, "lw x3,5(x0)")>>

\* a backward beq that is fetched a second time, predicted taken, and held
\* in IF/ID behind the lw that loads the register it compares
HeldBranchText == <<Beq(0, 0, 5, "beq x0,x0,5"), Nop("nop"),
                    Lw(1, 0, 2, "lw x1,0(x2)"), Nop("nop"),
                    Add(2, 0, 0, "add x2,x0,x0"), Beq(1, 0, 2, "beq x1,x0,2"),
                    Add(3, 2, 2, "add x3,x2,x2")>>

\* the program PipelineApp._fill_default_program puts in the editor
DefaultText == <<Add(1, 0, 0, "add x1, x0, x0"), Add(2, 1, 1, "add x2, x1, x1"),
                 Lw(3, 0, 1, "lw x3, 0(x1)"), Add(4, 3, 2, "add x4, x3, x2"),
                 Beq(4, 0, 6, "beq x4, x0, SKIP"), Add(5, 4, 4, "add x5, x4, x4"),
                 Sw(5, 4, 1, "sw x5, 4(x1)"), Sub(6, 5, 1, "sub x6, x5, x1")>>

NamedPrograms ==
    {parse_program(LoadUseText), parse_program(RawChainText),
     parse_program(ZeroRegText), parse_program(LoopText),
     parse_program(SelfLoopText), parse_program(StraightText),
     parse_program(TieBreakText), parse_program(PortClashText),
     parse_program(StoreLoadText), parse_program(HeldBranchText),
     parse_program(DefaultText)}

\* the programs offered when another program is already loaded
ReloadPrograms == {parse_program(LoadUseText), parse_program(LoopText)}

\* the programs replayed under SpecReplay
ReplayPrograms == NamedPrograms \cup {parse_program(t) : t \in Texts(1)}

Programs ==
    {parse_program(t) : t \in UNION {Texts(n) : n \in 1..MaxLen}}
        \cup NamedPrograms

\* source lines as typed in the editor
SrcLw == Line("lw x1,0(x0)", <<"lw", " ", "x1", ",", "0", "(", "x0", ")">>)
SrcAdd == Line("add x2,x1,x1", <<"add", " ", "x2", ",", "x1", ",", "x1">>)
SrcAddUpper == Line("ADD X1,X0,x0", <<"ADD", " ", "X1", ",", "X0", ",", "x0">>)
SrcSwHex == Line("sw x2,0x4(x1)", <<"sw", " ", "x2", ",", "0x4", "(", "x1", ")">>)
SrcLoop == Line("LOOP:", <<"LOOP", ":">>)
SrcBlank == Line("", <<>>)
SrcBeqLoop == Line("beq x1,x0,LOOP", <<"beq", " ", "x1", ",", "x0", ",", "LOOP">>)
SrcBeqNeg == Line("beq x0,x0,-1", <<"beq", " ", "x0", ",", "x0", ",", "-1">>)
SrcBeqFar == Line("beq x0,x0,5", <<"beq", " ", "x0", ",", "x0", ",", "5">>)
SrcBeqEnd == Line("beq x1,x0,END", <<"beq", " ", "x1", ",", "x0", ",", "END">>)
SrcBadReg == Line("add x2,x32,x1", <<"add", " ", "x2", ",", "x32", ",", "x1">>)
SrcBadOp == Line("mul x1,x2,x3", <<"mul", " ", "x1", ",", "x2", ",", "x3">>)
SrcBadArity == Line("add x1,x2", <<"add", " ", "x1", ",", "x2">>)
SrcBadAddr == Line("lw x1,4", <<"lw", " ", "x1", ",", "4">>)
SrcBadImm == Line("lw x1,z(x0)", <<"lw", " ", "x1", ",", "z", "(", "x0", ")">>)
SrcColon == Line(":", <<":">>)
SrcNopArgs == Line("nop x1,x2", <<"nop", " ", "x1", ",", "x2">>)
SrcCommas == Line(",", <<",">>)
SrcLabelComma == Line("L:,", <<"L", ":", ",">>)
SrcCommaLabel == Line(",:", <<",", ":">>)
SrcSpacedLabel == Line("x, :", <<"x", ",", " ", ":">>)
SrcBeqX == Line("beq x0,x0,x", <<"beq", " ", "x0", ",", "x0", ",", "x">>)

\* texts parse_program accepts
LoadUseSource == <<SrcLw, SrcBlank, SrcAdd>>
LabelLoopSource == <<SrcLoop, SrcLw, SrcBeqLoop>>
NegTargetSource == <<SrcBeqNeg, SrcAdd>>
FarTargetSource == <<SrcBeqFar>>
SpellingSource == <<SrcAddUpper, SrcSwHex>>

AcceptedTexts ==
    {LoadUseSource, LabelLoopSource, NegTargetSource, FarTargetSource,
     SpellingSource}

\* texts parse_program rejects, most of them after a well-formed first line
RejectedTexts ==
    {<<SrcLw, SrcBadReg>>, <<SrcBadOp>>, <<SrcLw, SrcBadArity>>,
     <<SrcLw, SrcBadAddr>>, <<SrcLw, SrcBeqEnd>>, <<SrcLw, SrcBadImm>>,
     <<SrcLw, SrcColon>>, <<SrcLw, SrcCommas>>, <<SrcLabelComma>>,
     <<SrcSpacedLabel, SrcBeqX>>}

\* a nop followed by operands, which parse_program takes as a plain nop
NopArgsSource == <<SrcNopArgs>>

\* a label spelt with a comma only: no instruction at all
CommaLabelSource == <<SrcCommaLabel>>

\* the texts of a session that edits: every rejected text, four accepted ones
EditorTexts ==
    RejectedTexts
        \cup {LoadUseSource, LabelLoopSource, NopArgsSource, CommaLabelSource}

\* parse_program on each text the editor submits
parsed == [text \in AcceptedTexts \cup EditorTexts |-> parse_program_text(text)]

PokeAddrs == {0}
PokeVals == {5}

PredictorModes == {"none", "static_nt", "onebit"}

----------------------------------------------------------------------------
(* Lifecycle *)

ResetFields_keeps_dmem ==
    /\ pc' = 0
    /\ cycle' = 0
    /\ regs' = [i \in 0..(NumRegs - 1) |-> 0]
    /\ dmem' = dmem
    /\ IF_ID' = LatchIFID
    /\ ID_EX' = LatchIDEX
    /\ EX_MEM' = LatchEXMEM
    /\ MEM_WB' = LatchMEMWB
    /\ last_events' = None
    /\ retired' = 0
    /\ stalls' = 0
    /\ flushes' = 0
    /\ mispredicts' = 0
    /\ trace' = <<>>
    /\ predictor_table' = EmptyMap
    /\ trace_stage_pc' = <<>>
    /\ stall_breakdown' = EmptyMap
    /\ addr_log' = <<>>

ResetFields_keeps_table ==
    /\ pc' = 0
    /\ cycle' = 0
    /\ regs' = [i \in 0..(NumRegs - 1) |-> 0]
    /\ dmem' = EmptyMap
    /\ IF_ID' = LatchIFID
    /\ ID_EX' = LatchIDEX
    /\ EX_MEM' = LatchEXMEM
    /\ MEM_WB' = LatchMEMWB
    /\ last_events' = None
    /\ retired' = 0
    /\ stalls' = 0
    /\ flushes' = 0
    /\ mispredicts' = 0
    /\ trace' = <<>>
    /\ predictor_table' = predictor_table
    /\ trace_stage_pc' = <<>>
    /\ stall_breakdown' = EmptyMap
    /\ addr_log' = <<>>

\* the assignments of reset(): program, inst_meta and the configuration stay
ResetFields ==
    /\ pc' = 0
    /\ cycle' = 0
    /\ regs' = [i \in 0..(NumRegs - 1) |-> 0]
    /\ dmem' = EmptyMap
    /\ IF_ID' = LatchIFID
    /\ ID_EX' = LatchIDEX
    /\ EX_MEM' = LatchEXMEM
    /\ MEM_WB' = LatchMEMWB
    /\ last_events' = None
    /\ retired' = 0
    /\ stalls' = 0
    /\ flushes' = 0
    /\ mispredicts' = 0
    /\ trace' = <<>>
    /\ predictor_table' = EmptyMap
    /\ trace_stage_pc' = <<>>
    /\ stall_breakdown' = EmptyMap
    /\ addr_log' = <<>>

\* everything an observer of the engine can read
Snapshot ==
    [program |-> program, pc |-> pc, cycle |-> cycle, regs |-> regs,
     dmem |-> dmem, predictor_table |-> predictor_table,
     retired |-> retired, stalls |-> stalls, flushes |-> flushes,
     mispredicts |-> mispredicts, trace |-> trace,
     trace_stage_pc |-> trace_stage_pc, inst_meta |-> inst_meta,
     inst_status |-> inst_status, stall_breakdown |-> stall_breakdown,
     addr_log |-> addr_log, IF_ID |-> IF_ID, ID_EX |-> ID_EX,
     EX_MEM |-> EX_MEM, MEM_WB |-> MEM_WB, last_events |-> last_events]

reset ==
    /\ ResetFields
    /\ inst_status' = EmptyMap
    /\ UNCHANGED <<program, inst_meta, forwarding, structural_on, predictor_mode>>
    /\ dmem0' = EmptyMap
    /\ last_outcome' = EmptyMap
    /\ clean' = FALSE
    /\ wrong_path' = {}
    /\ prev' = None
    /\ prev_mode' = "none"
    /\ parse_failure' = None
    /\ edited' = FALSE
    /\ UNCHANGED <<recording, editing>>

\* the programs offered to load_program in a given state
LoadChoices ==
    IF editing THEN ReloadPrograms
    ELSE IF program = <<>> /\ cycle = 0
    THEN (IF recording THEN ReplayPrograms ELSE Programs)
    ELSE IF recording THEN {program} \cup ReloadPrograms
    ELSE {parse_program(LoopText)}

load_program(prog) ==
    /\ ResetFields
    /\ program' = prog
    /\ inst_meta' = [p \in 0..(Len(prog) - 1) |-> ins_str(prog[p + 1])]
    /\ inst_status' = [p \in 0..(Len(prog) - 1) |->
                          [retired |-> FALSE, retire_cycle |-> None, last_stage |-> "-"]]
    /\ UNCHANGED <<forwarding, structural_on, predictor_mode>>
    /\ dmem0' = EmptyMap
    /\ last_outcome' = EmptyMap
    /\ clean' = TRUE
    /\ prev' = IF recording /\ clean /\ prog = program THEN Some(Snapshot) ELSE None
    /\ prev_mode' = IF recording /\ clean /\ prog = program
                    THEN predictor_mode ELSE "none"
    /\ wrong_path' = {}
    /\ parse_failure' = None
    /\ edited' = FALSE
    /\ UNCHANGED <<recording, editing>>

LoadProgram == \E prog \in LoadChoices : load_program(prog)

\* the programs whose runs are explored with a switch or a poke in the
\* middle of the run
MidRunPrograms ==
    {parse_program(LoadUseText), parse_program(LoopText),
     parse_program(StraightText), <<>>}

\* a switch or a poke in the middle of a run: one per run, in a session
\* that neither records nor edits
MidRunOffered ==
    ~edited /\ ~recording /\ ~editing /\ program \in MidRunPrograms

EditOffered == cycle = 0 \/ MidRunOffered

\* PipelineApp.on_mem_set: a direct write into data memory
on_mem_set(addr, val) ==
    /\ dmem' = Put(dmem, addr, val)
    /\ dmem0' = IF cycle = 0 THEN Put(dmem, addr, val) ELSE dmem0
    /\ edited' = (edited \/ cycle > 0)
    /\ clean' = FALSE
    /\ prev' = None
    /\ prev_mode' = "none"
    /\ parse_failure' = None
    /\ UNCHANGED <<program, pc, cycle, regs, forwarding, structural_on,
                   predictor_mode, predictor_table, retired, stalls, flushes,
                   mispredicts, trace, trace_stage_pc, inst_meta, inst_status,
                   stall_breakdown, addr_log, IF_ID, ID_EX, EX_MEM, MEM_WB,
                   last_events, recording, last_outcome, wrong_path, editing>>

PokeChoices == IF EditOffered THEN PokeAddrs \X PokeVals ELSE {}

MemSet == \E poke \in PokeChoices : on_mem_set(poke[1], poke[2])

\* PipelineApp.on_forward_toggle: the forwarding switch, flipped by the
\* click, copied into the engine
on_forward_toggle ==
    /\ forwarding' = ~forwarding
    /\ edited' = (edited \/ cycle > 0)
    /\ clean' = (clean /\ cycle = 0)
    /\ prev' = None
    /\ prev_mode' = "none"
    /\ parse_failure' = None
    /\ UNCHANGED <<program, pc, cycle, regs, dmem, structural_on,
                   predictor_mode, predictor_table, retired, stalls, flushes,
                   mispredicts, trace, trace_stage_pc, inst_meta, inst_status,
                   stall_breakdown, addr_log, IF_ID, ID_EX, EX_MEM, MEM_WB,
                   last_events, dmem0, recording, last_outcome, wrong_path,
                   editing>>

ForwardToggle == EditOffered /\ on_forward_toggle

\* PipelineApp.on_struct_toggle: the structural-hazard switch, likewise
on_struct_toggle ==
    /\ structural_on' = ~structural_on
    /\ edited' = (edited \/ cycle > 0)
    /\ clean' = (clean /\ cycle = 0)
    /\ prev' = None
    /\ prev_mode' = "none"
    /\ parse_failure' = None
    /\ UNCHANGED <<program, pc, cycle, regs, dmem, forwarding,
                   predictor_mode, predictor_table, retired, stalls, flushes,
                   mispredicts, trace, trace_stage_pc, inst_meta, inst_status,
                   stall_breakdown, addr_log, IF_ID, ID_EX, EX_MEM, MEM_WB,
                   last_events, dmem0, recording, last_outcome, wrong_path,
                   editing>>

StructToggle == EditOffered /\ on_struct_toggle

\* PipelineApp.on_bp_change: the predictor mode selected in the menu, copied
\* into the engine; before the first cycle it only sets the mode of the run
on_bp_change(mode) ==
    /\ predictor_mode' = mode
    /\ parse_failure' = None
    /\ edited' = (edited \/ (cycle > 0 /\ mode # predictor_mode))
    /\ clean' = IF cycle > 0 /\ mode # predictor_mode THEN FALSE ELSE clean
    /\ prev' = IF cycle > 0 /\ mode # predictor_mode THEN None ELSE prev
    /\ prev_mode' = IF cycle > 0 /\ mode # predictor_mode THEN "none" ELSE prev_mode
    /\ UNCHANGED <<program, pc, cycle, regs, dmem, forwarding, structural_on,
                   predictor_table, retired, stalls, flushes, mispredicts,
                   trace, trace_stage_pc, inst_meta, inst_status,
                   stall_breakdown, addr_log, IF_ID, ID_EX, EX_MEM, MEM_WB,
                   last_events, dmem0, recording, last_outcome, wrong_path,
                   editing>>

ModeChoices ==
    IF EditOffered THEN PredictorModes ELSE {}

BpChange == \E mode \in ModeChoices : on_bp_change(mode)

step ==
    /\ cycle < MaxCycle
    /\ trace_stage_pc' = next_trace_stage_pc
    /\ last_events' = Some(next_last_events)
    /\ retired' = wb_retired
    /\ regs' = next_regs
    /\ stalls' = next_stalls
    /\ stall_breakdown' = next_stall_breakdown
    /\ addr_log' = addr_log \o ex_log \o mem_log
    /\ dmem' = mem_dmem
    /\ predictor_table' = next_predictor_table
    /\ mispredicts' = IF mispredicted THEN mispredicts + 1 ELSE mispredicts
    /\ flushes' = IF mispredicted THEN flushes + 1 ELSE flushes
    /\ MEM_WB' = next_MEM_WB
    /\ EX_MEM' = next_EX_MEM
    /\ ID_EX' = next_ID_EX
    /\ IF_ID' = next_IF_ID
    /\ pc' = next_pc
    /\ cycle' = cycle + 1
    /\ inst_status' = next_inst_status
    /\ trace' = next_trace
    /\ last_outcome' = next_last_outcome
    /\ wrong_path' = next_wrong_path
    /\ parse_failure' = None
    /\ UNCHANGED <<program, inst_meta, forwarding, structural_on, predictor_mode,
                   dmem0, recording, clean, prev, prev_mode, editing, edited>>

\* the texts submitted from the editor in a given state (replacing a
\* loaded program is left to LoadProgram unless the session edits)
EditorChoices ==
    IF editing THEN EditorTexts
    ELSE IF program # <<>> THEN {}
    ELSE IF recording THEN {LoadUseSource}
    ELSE AcceptedTexts

\* as on_load_text, but the lines parsed before the error are installed
on_load_text_partial(text) ==
    LET r == parse_program_text(text)
        head == parse_program_text(<<text[1]>>)
    IN  IF r.ok THEN load_program(r.val)
        ELSE /\ parse_failure' =
                    Some([handler |-> "on_load_text", error |-> r.error])
             /\ program' = IF head.ok THEN head.val ELSE program
             /\ UNCHANGED <<pc, cycle, regs, dmem, forwarding, structural_on,
                            predictor_mode, predictor_table, retired, stalls,
                            flushes, mispredicts, trace, trace_stage_pc,
                            inst_meta, inst_status, stall_breakdown, addr_log,
                            IF_ID, ID_EX, EX_MEM, MEM_WB, last_events,
                            dmem0, recording, clean, prev, prev_mode,
                            last_outcome, wrong_path, editing, edited>>

\* PipelineApp.on_load_text: parse the editor text, then install the program;
\* a parse error is shown and nothing else happens
on_load_text(text) ==
    LET r == parsed[text]
    IN  IF r.ok THEN load_program(r.val)
        ELSE /\ parse_failure' =
                    Some([handler |-> "on_load_text", error |-> r.error])
             /\ UNCHANGED <<engine, dmem0, recording, clean, prev, prev_mode,
                            last_outcome, wrong_path, editing, edited>>

OnLoadText == \E text \in EditorChoices : on_load_text(text)

\* PipelineApp.on_reset: reset(), the switches written back (they already
\* agree with the engine), then the editor text parsed and installed, a
\* parse error being swallowed; load_program starts with reset() itself
on_reset(text) ==
    LET r == parsed[text]
    IN  IF r.ok THEN load_program(r.val)
        ELSE /\ ResetFields
             /\ inst_status' = EmptyMap
             /\ UNCHANGED <<program, inst_meta, forwarding, structural_on,
                            predictor_mode>>
             /\ dmem0' = EmptyMap
             /\ last_outcome' = EmptyMap
             /\ clean' = FALSE
             /\ wrong_path' = {}
             /\ prev' = None
             /\ prev_mode' = "none"
             /\ parse_failure' =
                    Some([handler |-> "on_reset", error |-> r.error])
             /\ edited' = FALSE
             /\ UNCHANGED <<recording, editing>>

\* the text left in the editor when Reset is pressed
ResetChoices ==
    IF editing THEN EditorTexts
    ELSE IF program # <<>> THEN {}
    ELSE {LoadUseSource}

OnReset == \E text \in ResetChoices : on_reset(text)

----------------------------------------------------------------------------
(* The engine as constructed by PipelineApp: no program, the configuration  *)
(* taken from the switches                                                  *)

Constructed ==
    /\ program = <<>>
    /\ pc = 0
    /\ cycle = 0
    /\ regs = [i \in 0..(NumRegs - 1) |-> 0]
    /\ dmem = EmptyMap
    /\ forwarding \in BOOLEAN
    /\ structural_on \in BOOLEAN
    /\ predictor_mode \in PredictorModes
    /\ predictor_table = EmptyMap
    /\ retired = 0
    /\ stalls = 0
    /\ flushes = 0
    /\ mispredicts = 0
    /\ trace = <<>>
    /\ trace_stage_pc = <<>>
    /\ inst_meta = EmptyMap
    /\ inst_status = EmptyMap
    /\ stall_breakdown = EmptyMap
    /\ addr_log = <<>>
    /\ IF_ID = LatchIFID
    /\ ID_EX = LatchIDEX
    /\ EX_MEM = LatchEXMEM
    /\ MEM_WB = LatchMEMWB
    /\ last_events = None
    /\ dmem0 = EmptyMap
    /\ clean = FALSE
    /\ prev = None
    /\ last_outcome = EmptyMap
    /\ wrong_path = {}
    /\ parse_failure = None
    /\ prev_mode = "none"
    /\ edited = FALSE

Init == Constructed /\ recording = FALSE /\ editing = FALSE

InitReplay == Constructed /\ recording = TRUE /\ editing = FALSE

InitEditor == Constructed /\ recording = FALSE /\ editing = TRUE

Next ==
    \/ step \/ reset \/ LoadProgram \/ MemSet \/ OnLoadText \/ OnReset
    \/ BpChange \/ ForwardToggle \/ StructToggle

Spec == Init /\ [][Next]_vars

SpecReplay == InitReplay /\ [][Next]_vars

SpecEditor == InitEditor /\ [][Next]_vars

----------------------------------------------------------------------------
(* Reference semantics: the program executed one instruction at a time in  *)
(* program order                                                            *)

SeqWrite(rf, rd, v) == IF rd = 0 THEN rf ELSE [rf EXCEPT ![rd] = v]

RECURSIVE SeqRun(_, _, _, _, _)
SeqRun(prog, rf, mem, p, fuel) ==
    IF p < 0 \/ p >= Len(prog)
    THEN [done |-> TRUE, regs |-> rf, dmem |-> mem]
    ELSE IF fuel = 0
    THEN [done |-> FALSE, regs |-> rf, dmem |-> mem]
    ELSE LET ins == prog[p + 1]
             a == rf[Or(ins.rs1, 0)]
             b == rf[Or(ins.rs2, 0)]
         IN  IF ins.op = "add"
             THEN SeqRun(prog, SeqWrite(rf, ins.rd[1], a + b), mem, p + 1, fuel - 1)
             ELSE IF ins.op = "sub"
             THEN SeqRun(prog, SeqWrite(rf, ins.rd[1], a - b), mem, p + 1, fuel - 1)
             ELSE IF ins.op = "lw"
             THEN SeqRun(prog, SeqWrite(rf, ins.rd[1], Get(mem, a + ins.imm[1], 0)),
                         mem, p + 1, fuel - 1)
             ELSE IF ins.op = "sw"
             THEN SeqRun(prog, rf, Put(mem, a + ins.imm[1], b), p + 1, fuel - 1)
             ELSE IF ins.op = "beq"
             THEN SeqRun(prog, rf, mem,
                         IF a = b THEN ins.branch_target_idx[1] ELSE p + 1, fuel - 1)
             ELSE SeqRun(prog, rf, mem, p + 1, fuel - 1)

Sequential == SeqRun(program, [i \in 0..(NumRegs - 1) |-> 0], dmem0, 0, MaxFuel)

\* the run has its switches and its memory as they were set before its
\* first cycle: a run under a fixed configuration
Undisturbed == ~edited

\* nothing left in flight and nothing left to fetch
Drained ==
    /\ pc >= Len(program)
    /\ is_nop(IF_ID.instr) /\ is_nop(ID_EX.instr)
    /\ is_nop(EX_MEM.instr) /\ is_nop(MEM_WB.instr)

----------------------------------------------------------------------------
(* C1: once the pipeline has drained, registers and data memory are those  *)
(* of the in-order sequential execution of the program (whenever that      *)
(* execution terminates), under every configuration.                       *)
(* The run keeps the switches and the memory set before its first cycle.   *)
C1_SequentialEquivalence ==
    (cycle > 0 /\ Drained /\ Sequential.done /\ Undisturbed)
        => (regs = Sequential.regs /\ dmem = Sequential.dmem)

----------------------------------------------------------------------------
(* C2: in static_nt mode the instruction at index p+1, fetched right       *)
(* behind a beq at index p that resolves taken (target # p+1), is never    *)
(* written back: it is never counted in retired nor marked retired.        *)
(* The run keeps the switches and the memory set before its first cycle.   *)
C2_WrongPathNeverRetires ==
    (predictor_mode = "static_nt" /\ Undisturbed) => "WB" \notin wrong_path

----------------------------------------------------------------------------
(* C3: register 0 holds 0 and reads as 0 in every reachable state, at      *)
(* decode and through the forwarding network; an add, sub or lw whose      *)
(* destination is register 0 retires without changing any register.        *)
ZeroReads ==
    /\ regs[0] = 0
    /\ _read_reg(regs, 0) = 0
    /\ (ID_EX.rs1 = 0 => a_val.val = 0)
    /\ (ID_EX.rs2 = 0 => b_val.val = 0)

RetiresIntoZero ==
    /\ cycle' = cycle + 1
    /\ ~is_nop(MEM_WB.instr)
    /\ writes_rd(MEM_WB.instr)
    /\ MEM_WB.instr.rd = Some(0)

C3_RegisterZero == []ZeroReads /\ [][RetiresIntoZero => regs' = regs]_vars

\* add x0,x1,x1 computed a non-zero sum and has been written back
C3_Witness ==
    /\ program = parse_program(ZeroRegText)
    /\ regs[1] # 0
    /\ Len(trace) >= 2
    /\ trace[Len(trace) - 1].WB = "add x0,x1,x1"
    /\ \E k \in DOMAIN addr_log :
          /\ addr_log[k].kind = "alu"
          /\ addr_log[k].op = "add"
          /\ addr_log[k].alu # 0

----------------------------------------------------------------------------
(* C4: lw x1,0(x0); add x2,x1,x1 with forwarding on and the structural     *)
(* hazard off, mem[0] = v poked before the first step: at drain exactly    *)
(* one stall has been counted, its reason is lw-use, x1 = v and x2 = 2*v.  *)
(* The run keeps the switches and the memory set before its first cycle.   *)
LoadUseRun ==
    /\ program = parse_program(LoadUseText)
    /\ forwarding
    /\ ~structural_on
    /\ Undisturbed
    /\ cycle > 0
    /\ Drained

C4_LoadUseStall ==
    LoadUseRun =>
        /\ stalls = 1
        /\ stall_breakdown = ("lw-use" :> 1)
        /\ regs[1] = Get(dmem0, 0, 0)
        /\ regs[2] = 2 * Get(dmem0, 0, 0)

C4_Witness == LoadUseRun /\ dmem0 = (0 :> 5) /\ regs[2] = 10 /\ stalls = 1

----------------------------------------------------------------------------
(* C5: add x1,x0,x0; add x2,x1,x1; add x3,x2,x2 with forwarding off and    *)
(* the structural hazard off.  As claimed: exactly 2 decode stalls at      *)
(* drain.                                                                  *)
(* The run keeps the switches and the memory set before its first cycle.   *)
RawChainRun ==
    /\ program = parse_program(RawChainText)
    /\ ~forwarding
    /\ ~structural_on
    /\ Undisturbed
    /\ cycle > 0
    /\ Drained

C5_TwoStalls == RawChainRun => stalls = 2

(* C5, amended: exactly 6 decode stalls at drain, three for each of the    *)
(* two dependences (RAW vs EX, RAW vs MEM, RAW vs WB).                     *)
(* The run keeps the switches and the memory set before its first cycle.   *)
C5_SixStalls ==
    RawChainRun =>
        /\ stalls = 6
        /\ stall_breakdown =
              ("RAW vs EX" :> 2 @@ "RAW vs MEM" :> 2 @@ "RAW vs WB" :> 2)

C5_Witness == RawChainRun /\ stalls = 6 /\ retired = 3

----------------------------------------------------------------------------
(* C6: in static_nt mode a step in which a beq resolves taken adds exactly *)
(* one to mispredicts and one to flushes, every other step adds nothing;   *)
(* so both counters equal the number of taken resolutions of the run.      *)
(* The run keeps the switches and the memory set before its first cycle.   *)
TakenResolutions ==
    Cardinality({k \in DOMAIN addr_log :
                    addr_log[k].kind = "branch_cmp" /\ addr_log[k].taken})

NotTakenResolutions ==
    Cardinality({k \in DOMAIN addr_log :
                    addr_log[k].kind = "branch_cmp" /\ ~addr_log[k].taken})

StaticNtStep ==
    (predictor_mode = "static_nt" /\ cycle' = cycle + 1) =>
        IF resolves /\ next_EX_MEM.branch_taken
        THEN mispredicts' = mispredicts + 1 /\ flushes' = flushes + 1
        ELSE mispredicts' = mispredicts /\ flushes' = flushes

C6_StaticNtCounts ==
    /\ []((predictor_mode = "static_nt" /\ Undisturbed) =>
            (mispredicts = TakenResolutions /\ flushes = TakenResolutions))
    /\ [][StaticNtStep]_vars

\* a run with exactly one taken and at least one not-taken resolution
C6_Witness ==
    /\ predictor_mode = "static_nt"
    /\ TakenResolutions = 1
    /\ NotTakenResolutions >= 1
    /\ mispredicts = 1
    /\ flushes = 1

----------------------------------------------------------------------------
(* C7: in onebit mode, when a beq (one program index, identified by its    *)
(* iid) that resolved taken is fetched again and resolves taken again, the *)
(* second resolution records no mispredict, also when the beq was held in  *)
(* IF/ID by a stall.                                                       *)
(* The run keeps the switches and the memory set before its first cycle.   *)
SecondTakenResolution ==
    /\ predictor_mode = "onebit"
    /\ cycle' = cycle + 1
    /\ resolves
    /\ next_EX_MEM.branch_taken
    /\ ID_EX.instr.iid \in DOMAIN last_outcome
    /\ last_outcome[ID_EX.instr.iid].taken
    /\ last_outcome[ID_EX.instr.iid].refetched
    /\ Undisturbed

C7_OneBitConverges ==
    [][SecondTakenResolution => mispredicts' = mispredicts]_vars

----------------------------------------------------------------------------
(* C8: a straight-line program of N >= 1 instructions without beq and      *)
(* without register dependence, structural hazard off.  As claimed: after  *)
(* N + 4 steps cycle = N + 4, retired = N and no stall, flush or           *)
(* mispredict was counted; after fewer steps retired < N.                  *)
(* The run keeps the switches and the memory set before its first cycle.   *)
HazardFree(prog) ==
    /\ \A i \in DOMAIN prog : prog[i].op # "beq"
    /\ \A i, j \in DOMAIN prog :
          (i < j /\ writes_rd(prog[i]))
              => ~uses_reg(prog[j], Or(prog[i].rd, 0))

CpiSanity ==
    LET N == Len(program)
    IN  /\ Len(trace) = N + 4 =>
              (cycle = N + 4 /\ retired = N /\ stalls = 0 /\ flushes = 0
                 /\ mispredicts = 0)
        /\ Len(trace) < N + 4 => retired < N

C8_CpiSanity ==
    (Len(program) >= 1 /\ HazardFree(program) /\ ~structural_on
       /\ Undisturbed) => CpiSanity

(* C8, amended: the same for a program none of whose N instructions is a   *)
(* nop (a nop line is fetched and advanced but never counted as retired).  *)
(* The run keeps the switches and the memory set before its first cycle.   *)
NoNop(prog) == \A i \in DOMAIN prog : ~is_nop(prog[i])

C8_CpiSanityNoNop ==
    (Len(program) >= 1 /\ HazardFree(program) /\ NoNop(program)
       /\ ~structural_on /\ Undisturbed) => CpiSanity

C8_Witness ==
    /\ Len(program) = 3 /\ HazardFree(program) /\ NoNop(program)
    /\ ~structural_on
    /\ Len(trace) = 7 /\ retired = 3

----------------------------------------------------------------------------
(* C9: reset(); load_program(p); step() k times, run a second time on the  *)
(* engine that executed the first run, ends in the same state: program     *)
(* counter, registers, memory, latches, counters, predictor table, status  *)
(* tables and logs are identical.                                          *)
Replayed ==
    prev # None /\ clean /\ cycle = prev[1].cycle /\ predictor_mode = prev_mode

C9_ReplayDeterminism == Replayed => Snapshot = prev[1]

\* a replay of a run that mispredicted and trained the predictor
C9_Witness ==
    /\ Replayed
    /\ cycle >= 5
    /\ mispredicts >= 1
    /\ predictor_table # EmptyMap

----------------------------------------------------------------------------
(* C10: a step taken in a drained state fetches a no-op and changes        *)
(* neither registers, memory, counters, stall histogram, predictor table   *)
(* nor per-instruction status, and leaves the pipeline drained.            *)
DrainedStep == Drained /\ cycle' = cycle + 1

C10_DrainedSteadyState ==
    [][DrainedStep =>
          /\ regs' = regs
          /\ dmem' = dmem
          /\ retired' = retired
          /\ stalls' = stalls
          /\ flushes' = flushes
          /\ mispredicts' = mispredicts
          /\ stall_breakdown' = stall_breakdown
          /\ predictor_table' = predictor_table
          /\ inst_status' = inst_status
          /\ Drained']_vars

AllNop(row) ==
    /\ row.IF = "NOP" /\ row.ID = "NOP" /\ row.EX = "NOP"
    /\ row.MEM = "NOP" /\ row.WB = "NOP"

\* a step was taken from a drained state after instructions had retired
C10_Witness ==
    /\ Drained
    /\ retired >= 2
    /\ pc > Len(program)
    /\ Len(trace) >= 2
    /\ AllNop(trace[Len(trace) - 1])
    /\ AllNop(trace[Len(trace)])

----------------------------------------------------------------------------
(* C11: step() has no failure outcome.  In every reachable state, whatever *)
(* the accepted program (a beq target may be negative or beyond the end)   *)
(* and the configuration, every register index step() uses is a valid      *)
(* index and step() can be taken; each step appends a five-stage row, and  *)
(* a fetch at a pc outside [0, len(program)) puts a no-op into IF/ID.      *)
Stages == {"IF", "ID", "EX", "MEM", "WB"}

RegIndexes == 0..(NumRegs - 1)

StepDefined ==
    /\ MEM_WB.rd \in RegIndexes
    /\ Or(IF_ID.instr.rs1, 0) \in RegIndexes
    /\ Or(IF_ID.instr.rs2, 0) \in RegIndexes
    /\ ID_EX.rs1 \in RegIndexes /\ ID_EX.rs2 \in RegIndexes
    /\ (cycle < MaxCycle => ENABLED step)

OutOfRangeFetch ==
    /\ cycle' = cycle + 1
    /\ ~fetch_stall
    /\ (pc < 0 \/ pc >= Len(program))

C11_StepNeverFails ==
    /\ []StepDefined
    /\ [][cycle' = cycle + 1 =>
            (Len(trace') = Len(trace) + 1
               /\ DOMAIN trace'[Len(trace')] = Stages)]_vars
    /\ [][OutOfRangeFetch =>
            (is_nop(IF_ID'.instr) /\ trace'[Len(trace')].IF = "NOP")]_vars

\* a taken beq with target -1 sent the pc below zero and the fetch there
\* delivered a no-op
C11_Witness ==
    /\ program = parse_program_text(NegTargetSource).val
    /\ IF_ID.pc = -1
    /\ is_nop(IF_ID.instr)
    /\ pc = 0
    /\ trace[Len(trace)].IF = "NOP"

----------------------------------------------------------------------------
(* C12: every step() adds one to cycle and appends one row to trace and    *)
(* one to trace_stage_pc, so len(trace) = len(trace_stage_pc) = cycle in   *)
(* every reachable state; the last trace row is the snapshot of the        *)
(* latches the step returned; earlier rows are never changed (the logs     *)
(* are only emptied, by reset and load_program).                           *)
CurrentRow ==
    [IF |-> ins_str(IF_ID.instr), ID |-> ins_str(ID_EX.instr),
     EX |-> ins_str(EX_MEM.instr), MEM |-> ins_str(MEM_WB.instr),
     WB |-> ins_str(MEM_WB.instr)]

RowCounts ==
    /\ Len(trace) = cycle
    /\ Len(trace_stage_pc) = cycle
    /\ (cycle > 0 => trace[cycle] = CurrentRow)

LogsExtended ==
    \/ /\ cycle' = cycle + 1
       /\ Len(trace') = Len(trace) + 1
       /\ SubSeq(trace', 1, Len(trace)) = trace
       /\ Len(trace_stage_pc') = Len(trace_stage_pc) + 1
       /\ SubSeq(trace_stage_pc', 1, Len(trace_stage_pc)) = trace_stage_pc
    \/ /\ cycle' = cycle
       /\ trace' = trace
       /\ trace_stage_pc' = trace_stage_pc
    \/ /\ cycle' = 0
       /\ trace' = <<>>
       /\ trace_stage_pc' = <<>>

C12_OneRowPerCycle == []RowCounts /\ [][LogsExtended]_vars

\* several cycles into a run whose rows differ
C12_Witness ==
    /\ cycle >= 4
    /\ Len(trace) = cycle
    /\ trace[cycle] = CurrentRow
    /\ trace[1] # trace[2]
    /\ trace[2] # trace[cycle]
    /\ trace_stage_pc[cycle].IF # None

----------------------------------------------------------------------------
(* C13: with the status table built by load_program, a step that writes    *)
(* back the instruction of program index i marks entry i retired with the  *)
(* cycle counter of that step, and changes the retired mark and retire     *)
(* cycle of no other entry; so an index is marked retired only by its own  *)
(* writeback, also when the instruction was held in IF/ID by a stall.      *)
StatusLoaded == DOMAIN inst_status = 0..(Len(program) - 1)

WritebackMarks ==
    (cycle' = cycle + 1 /\ StatusLoaded) =>
        \A i \in DOMAIN inst_status :
            IF ~is_nop(MEM_WB.instr) /\ MEM_WB.instr.iid = i
            THEN /\ inst_status'[i].retired
                 /\ inst_status'[i].retire_cycle \in {Some(cycle), Some(cycle + 1)}
            ELSE /\ inst_status'[i].retired = inst_status[i].retired
                 /\ inst_status'[i].retire_cycle = inst_status[i].retire_cycle

C13_RetiredMarks == [][WritebackMarks]_vars

----------------------------------------------------------------------------
(* C14: every beq of a program returned by parse_program, and so of every  *)
(* program the engine holds, has its target index in [0, len(program)],    *)
(* whether the target was written as a label or as a number.               *)
C14_BranchTargetsInRange ==
    \A i \in DOMAIN program :
        program[i].op = "beq" =>
            program[i].branch_target_idx[1] \in 0..Len(program)

----------------------------------------------------------------------------
(* C15: a step in which parse_program raises (unknown register or opcode,  *)
(* wrong operand count, malformed address, unresolved label, ...) installs *)
(* nothing: the engine's program, its text table and the configuration are *)
(* unchanged; after on_load_text the whole engine is unchanged (on_reset   *)
(* has reset the run state before parsing).                                *)
ParseRaised == parse_failure' # None /\ parse_failure' # parse_failure

C15_FailedParseInstallsNothing ==
    [][ParseRaised =>
          /\ program' = program
          /\ inst_meta' = inst_meta
          /\ forwarding' = forwarding
          /\ structural_on' = structural_on
          /\ predictor_mode' = predictor_mode
          /\ (parse_failure'[1].handler = "on_load_text" => engine' = engine)
          /\ (parse_failure'[1].handler = "on_reset" => cycle' = 0)]_vars

\* a text with a well-formed first line and an unknown register in the
\* second was submitted in the middle of a run
C15_Witness ==
    /\ parse_failure # None
    /\ parse_failure[1].handler = "on_load_text"
    /\ parse_failure[1].error.msg = "Unknown register"
    /\ program = parse_program_text(LabelLoopSource).val
    /\ cycle >= 5
    /\ retired >= 1

----------------------------------------------------------------------------
(* C16: predictor modes none and static_nt are indistinguishable.  A run   *)
(* load_program(p); step() x k in one of the two modes ends in the state   *)
(* (pc, latches, registers, memory, counters, tables, logs) in which the   *)
(* same run in the other mode ended, for every k; and in both modes no     *)
(* latch carries predicted_taken and the predictor table stays empty.      *)
OtherModeReplayed ==
    /\ prev # None
    /\ clean
    /\ cycle = prev[1].cycle
    /\ {predictor_mode, prev_mode} = {"none", "static_nt"}

NeverPredictsTaken ==
    /\ predictor_table = EmptyMap
    /\ ~IF_ID.predicted_taken
    /\ ~ID_EX.predicted_taken
    /\ ~EX_MEM.predicted_taken

C16_NoneEqualsStaticNt ==
    /\ OtherModeReplayed => Snapshot = prev[1]
    /\ predictor_mode \in {"none", "static_nt"} => NeverPredictsTaken

\* a static_nt run with a misprediction compared with the run in mode none
C16_Witness ==
    /\ OtherModeReplayed
    /\ predictor_mode = "static_nt"
    /\ prev_mode = "none"
    /\ cycle >= 5
    /\ mispredicts >= 1
    /\ retired >= 1

(* C17: reset() can be called in every reachable state and sets pc = 0,    *)
(* cycle = 0, all 32 registers to 0, memory to empty, the four latches to  *)
(* no-ops, the retired/stalls/flushes/mispredicts counters to 0, and       *)
(* empties the predictor table, stall histogram, trace and address log;    *)
(* the loaded program and the configuration are unchanged.                 *)
LatchesCleared ==
    /\ is_nop(IF_ID.instr)
    /\ is_nop(ID_EX.instr)
    /\ is_nop(EX_MEM.instr)
    /\ is_nop(MEM_WB.instr)

ResetState ==
    /\ pc = 0
    /\ cycle = 0
    /\ DOMAIN regs = 0..31
    /\ \A i \in 0..31 : regs[i] = 0
    /\ dmem = EmptyMap
    /\ LatchesCleared
    /\ retired = 0
    /\ stalls = 0
    /\ flushes = 0
    /\ mispredicts = 0
    /\ predictor_table = EmptyMap
    /\ stall_breakdown = EmptyMap
    /\ trace = <<>>
    /\ addr_log = <<>>

ResetFrame ==
    /\ program' = program
    /\ forwarding' = forwarding
    /\ structural_on' = structural_on
    /\ predictor_mode' = predictor_mode

C17_ResetClearsAll ==
    /\ [](ENABLED reset)
    /\ [][reset => ResetState' /\ ResetFrame]_vars

\* the engine right after reset(): the program is still loaded, its status
\* table is gone
C17_Witness ==
    /\ ResetState
    /\ program # <<>>
    /\ inst_meta # EmptyMap
    /\ inst_status = EmptyMap
    /\ ~clean

(* C18: no fetched instruction instance occupies more than one latch: a    *)
(* cycle that suppresses fetch keeps the pending instruction in IF/ID      *)
(* without advancing a copy into ID/EX.  In a branch-free program an       *)
(* instruction is fetched once, so the instructions in the four latches    *)
(* are pairwise different program lines and retired never exceeds the      *)
(* number of program instructions.                                         *)
(* The run keeps the switches and the memory set before its first cycle.   *)
BranchFree == \A k \in 1..Len(program) : program[k].op # "beq"

LatchInstrs == <<IF_ID.instr, ID_EX.instr, EX_MEM.instr, MEM_WB.instr>>

OneLatchPerInstance ==
    \A a, b \in 1..4 :
        (a # b /\ ~is_nop(LatchInstrs[a]) /\ ~is_nop(LatchInstrs[b]))
            => LatchInstrs[a].iid # LatchInstrs[b].iid

C18_NoDuplicateInstance ==
    (BranchFree /\ Undisturbed)
        => (OneLatchPerInstance /\ retired <= Len(program))

(* C19: in a cycle with a decode stall and no branch misprediction, after  *)
(* step() ID/EX holds a no-op, IF/ID holds the same instruction as before, *)
(* pc is unchanged, and the stall counter and the counter of the named     *)
(* reason (lw-use, RAW vs EX, RAW vs MEM, RAW vs WB) have each increased    *)
(* by exactly one.                                                         *)
DecodeReasons == {"lw-use", "RAW vs EX", "RAW vs MEM", "RAW vs WB"}

DecodeStallStep == cycle' = cycle + 1 /\ stall_decode /\ ~mispredicted

Count(m, k) == Get(m, k, 0)

BubbleAndHold ==
    /\ is_nop(ID_EX'.instr)
    /\ IF_ID'.instr = IF_ID.instr
    /\ pc' = pc
    /\ _detect_stall_decode.reason \in DecodeReasons
    /\ Count(stall_breakdown', _detect_stall_decode.reason)
           = Count(stall_breakdown, _detect_stall_decode.reason) + 1

C19_DecodeStallCountsOne ==
    [][DecodeStallStep => BubbleAndHold /\ stalls' = stalls + 1]_vars

(* C19, amended: the stall counter increases by one, or by two when the    *)
(* structural stall is in effect in the same cycle; the structural reason  *)
(* then increases by one as well, and no other reason changes.             *)
C19_DecodeStallCounts ==
    [][DecodeStallStep =>
        /\ BubbleAndHold
        /\ stalls' = stalls + (IF structural_stall THEN 2 ELSE 1)
        /\ Count(stall_breakdown', "structural")
              = Count(stall_breakdown, "structural")
                  + (IF structural_stall THEN 1 ELSE 0)
        /\ \A r \in DecodeReasons \ {_detect_stall_decode.reason} :
              Count(stall_breakdown', r) = Count(stall_breakdown, r)]_vars

\* the state after a cycle in which both stalls were in effect
C19_Witness ==
    /\ last_events # None
    /\ last_events[1].stall
    /\ last_events[1].structural_stall
    /\ ~last_events[1].mispredict
    /\ is_nop(ID_EX.instr)
    /\ ~is_nop(IF_ID.instr)
    /\ stalls = 2
    /\ Count(stall_breakdown, "structural") = 1

(* C20: every latch that holds a non-no-op instruction carries that        *)
(* instruction's own program index: program[latch.pc] is the instruction   *)
(* in the latch.  The pc field of IF/ID is unchanged by a stalled cycle    *)
(* and travels unchanged through ID/EX, EX/MEM and MEM/WB.                 *)
OwnIndex(latch) ==
    ~is_nop(latch.instr) =>
        /\ latch.pc \in 0..(Len(program) - 1)
        /\ program[latch.pc + 1] = latch.instr

C20_LatchCarriesOwnIndex ==
    /\ OwnIndex(IF_ID)
    /\ OwnIndex(ID_EX)
    /\ OwnIndex(EX_MEM)
    /\ OwnIndex(MEM_WB)

----------------------------------------------------------------------------
(* C21: whenever the beq of program index p resolves in EX with an actual  *)
(* outcome different from its carried prediction, after the step the       *)
(* mispredict and flush counters have each increased by one, IF/ID holds a *)
(* no-op, and pc is the branch's target if it was taken and p + 1 if it    *)
(* was not taken, also when the beq had been held in IF/ID by a stall.     *)
MispredictStep == cycle' = cycle + 1 /\ mispredicted

\* the program index of the beq in EX
ResolvingIndex == ID_EX.instr.iid

C21_MispredictRedirect ==
    [][MispredictStep =>
        /\ mispredicts' = mispredicts + 1
        /\ flushes' = flushes + 1
        /\ is_nop(IF_ID'.instr)
        /\ pc' = (IF next_EX_MEM.branch_taken
                  THEN Or(program[ResolvingIndex + 1].branch_target_idx, 0)
                  ELSE ResolvingIndex + 1)]_vars

----------------------------------------------------------------------------
(* C22: when fetch is not stalled and the fetched instruction is a beq     *)
(* predicted taken, the tentative next pc is the branch's target index,    *)
(* for every target in 0..len(program), target 0 included; for every other *)
(* fetched instruction and for a beq predicted not taken it is pc + 1.     *)
(* The tentative pc is the pc after the step unless a misprediction        *)
(* resolved in the same cycle redirects it.                                *)
FetchStep == cycle' = cycle + 1 /\ ~fetch_stall /\ ~mispredicted

FetchesPredictedTaken ==
    /\ ~is_nop(_fetch(pc))
    /\ _fetch(pc).op = "beq"
    /\ _predict_taken(_fetch(pc), pc)

FetchedTarget == _fetch(pc).branch_target_idx[1]

C22_TentativeNextPc ==
    [][FetchStep =>
        /\ (FetchesPredictedTaken /\ FetchedTarget \in 0..Len(program))
              => pc' = FetchedTarget
        /\ ~FetchesPredictedTaken => pc' = pc + 1]_vars

----------------------------------------------------------------------------
(* C23: in onebit mode, after every step in which the beq of program index *)
(* p resolves in EX, the predictor table entry of p is that branch's       *)
(* actual outcome and no other entry was changed, so that the next fetch   *)
(* of p predicts taken iff the outcome was taken.  In modes none and       *)
(* static_nt the table is never written.                                   *)
(* The run keeps the switches and the memory set before its first cycle.   *)
ResolveStep == cycle' = cycle + 1 /\ resolves

C23_OneBitTableUpdate ==
    /\ [][(ResolveStep /\ predictor_mode = "onebit") =>
            predictor_table' =
                Put(predictor_table, ResolvingIndex, next_EX_MEM.branch_taken)]_vars
    /\ [][(predictor_mode \in {"none", "static_nt"} /\ Undisturbed) =>
            predictor_table' = EmptyMap]_vars

----------------------------------------------------------------------------
(* C24: branch resolution overrides the fetch decision of the same cycle:  *)
(* when fetch is suppressed by a decode stall or a structural stall and    *)
(* the beq in EX resolves as mispredicted, after the step pc is the        *)
(* redirect target (the branch's target if taken, its index + 1 if not),   *)
(* not the frozen pc, and IF/ID holds a no-op, not the pending             *)
(* instruction.                                                            *)
StalledMispredictStep == MispredictStep /\ fetch_stall

RedirectTarget ==
    IF next_EX_MEM.branch_taken
    THEN Or(program[ResolvingIndex + 1].branch_target_idx, 0)
    ELSE ResolvingIndex + 1

C24_ResolutionOverridesStall ==
    [][StalledMispredictStep =>
        pc' = RedirectTarget /\ is_nop(IF_ID'.instr)]_vars

----------------------------------------------------------------------------
(* C25: with the structural hazard enabled, in every cycle whose EX/MEM    *)
(* latch holds a lw or sw at cycle start, fetch is suppressed (pc does not *)
(* advance unless a misprediction redirects it), the structural-stall      *)
(* event flag is set and the structural reason count increases by one,     *)
(* whether or not a decode stall occurs in the same cycle.  With the       *)
(* structural hazard disabled no cycle ever records a structural stall.    *)
(* The run keeps the switches and the memory set before its first cycle.   *)
MemoryOpInMem == ~is_nop(EX_MEM.instr) /\ EX_MEM.instr.op \in {"lw", "sw"}

StructuralStep == cycle' = cycle + 1 /\ structural_on /\ MemoryOpInMem

NoStructuralRecorded ==
    /\ "structural" \notin DOMAIN stall_breakdown
    /\ last_events # None => ~last_events[1].structural_stall

C25_StructuralStall ==
    /\ [][StructuralStep =>
            /\ ~mispredicted => (pc' = pc /\ IF_ID'.instr = IF_ID.instr)
            /\ last_events'[1].structural_stall
            /\ Count(stall_breakdown', "structural")
                  = Count(stall_breakdown, "structural") + 1]_vars
    /\ []((~structural_on /\ Undisturbed) => NoStructuralRecorded)

\* a structural stall recorded in a cycle without a decode stall
C25_Witness ==
    /\ structural_on
    /\ last_events # None
    /\ last_events[1].structural_stall
    /\ ~last_events[1].stall
    /\ ~last_events[1].mispredict
    /\ Count(stall_breakdown, "structural") = 1
    /\ stalls = 1
    /\ ~is_nop(IF_ID.instr)

----------------------------------------------------------------------------
(* C26: with forwarding enabled a decode stall occurs in a cycle iff ID/EX *)
(* holds a lw with a non-zero destination register that the non-no-op      *)
(* instruction in IF/ID reads (add/sub/beq read rs1 and rs2, lw reads rs1, *)
(* sw reads rs1 and rs2); its reason is always lw-use, and no RAW vs       *)
(* EX/MEM/WB reason is ever counted while forwarding is enabled.           *)
(* The run keeps the switches and the memory set before its first cycle.   *)
SourceRegs(ins) ==
    IF ins.op \in {"add", "sub", "beq", "sw"} THEN {ins.rs1[1], ins.rs2[1]}
    ELSE IF ins.op = "lw" THEN {ins.rs1[1]}
    ELSE {}

LoadUseHazard ==
    /\ ID_EX.instr.op = "lw"
    /\ ID_EX.instr.rd[1] # 0
    /\ ID_EX.instr.rd[1] \in SourceRegs(IF_ID.instr)

RawReasons == {"RAW vs EX", "RAW vs MEM", "RAW vs WB"}

C26_ForwardingStallsOnLoadUseOnly ==
    forwarding =>
        /\ stall_decode <=> LoadUseHazard
        /\ stall_decode => _detect_stall_decode.reason = "lw-use"
        /\ Undisturbed => DOMAIN stall_breakdown \cap RawReasons = {}
        /\ (Undisturbed /\ last_events # None /\ last_events[1].stall)
              => last_events[1].stall_reason = "lw-use"

\* a beq in IF/ID that reads the register the lw in ID/EX loads
C26_Witness ==
    /\ forwarding
    /\ stall_decode
    /\ LoadUseHazard
    /\ IF_ID.instr.op = "beq"
    /\ stalls >= 1

----------------------------------------------------------------------------
(* C27: with forwarding enabled a load-use stall lasts exactly one cycle:  *)
(* a cycle with a decode stall is never immediately followed by another    *)
(* cycle with a decode stall, and the stalled instruction is decoded into  *)
(* ID/EX in the very next cycle unless it is flushed.                      *)
StalledStep == cycle' = cycle + 1 /\ forwarding /\ stall_decode

AfterStallStep ==
    /\ cycle' = cycle + 1
    /\ forwarding
    /\ last_events # None
    /\ last_events[1].stall
    /\ ~is_nop(IF_ID.instr)

C27_LoadUseStallsOneCycle ==
    /\ [][StalledStep => ~stall_decode' /\ IF_ID'.instr = IF_ID.instr]_vars
    /\ [][AfterStallStep => ~stall_decode /\ ID_EX'.instr = IF_ID.instr]_vars

\* the add of the load-use pair in ID/EX, one cycle after its stall
C27_Witness ==
    /\ forwarding
    /\ program = parse_program(LoadUseText)
    /\ cycle = 4
    /\ stalls = 1
    /\ ~last_events[1].stall
    /\ ID_EX.instr = program[2]

----------------------------------------------------------------------------
(* C28: with forwarding enabled each EX operand with source register r is  *)
(* selected as follows, and the reported forwarding source matches: r = 0  *)
(* gives the decode-time value, source none; otherwise a register-writing  *)
(* non-lw instruction in EX/MEM with rd = r gives its ALU result, source   *)
(* EX/MEM; otherwise a register-writing instruction in MEM/WB with rd = r  *)
(* gives its writeback value, source MEM/WB; otherwise the value read from *)
(* the register file at decode, source none.  EX/MEM wins when both match. *)
WritesReg(latch, r) ==
    latch.instr.op \in {"add", "sub", "lw"} /\ latch.rd = r

Operand(r, decoded) ==
    IF r = 0 THEN [val |-> decoded, src |-> "none"]
    ELSE IF WritesReg(EX_MEM, r) /\ EX_MEM.instr.op # "lw"
    THEN [val |-> EX_MEM.alu, src |-> "EX/MEM"]
    ELSE IF WritesReg(MEM_WB, r)
    THEN [val |-> MEM_WB.wb_val, src |-> "MEM/WB"]
    ELSE [val |-> decoded, src |-> "none"]

OperandA == Operand(ID_EX.rs1, ID_EX.val1)
OperandB == Operand(ID_EX.rs2, ID_EX.val2)

\* what EX computes from the two operands
ExResult(latch) ==
    IF ID_EX.instr.op = "add" THEN latch.alu = OperandA.val + OperandB.val
    ELSE IF ID_EX.instr.op = "sub" THEN latch.alu = OperandA.val - OperandB.val
    ELSE IF ID_EX.instr.op = "lw"
    THEN latch.alu = OperandA.val + ID_EX.instr.imm[1]
    ELSE IF ID_EX.instr.op = "sw"
    THEN /\ latch.alu = OperandA.val + ID_EX.instr.imm[1]
         /\ latch.store_val = OperandB.val
    ELSE IF ID_EX.instr.op = "beq"
    THEN latch.branch_taken = (OperandA.val = OperandB.val)
    ELSE TRUE

ForwardingStep == cycle' = cycle + 1 /\ forwarding

C28_ForwardingSelection ==
    [][ForwardingStep =>
        /\ last_events'[1].fwd_a = OperandA.src
        /\ last_events'[1].fwd_b = OperandB.src
        /\ ExResult(EX_MEM')]_vars

\* mem[0] = 5: add x3,x1,x1 has left EX, where x1 was 15 in EX/MEM and 10
\* in MEM/WB, and both operands were taken from EX/MEM
C28_Witness ==
    /\ forwarding
    /\ program = parse_program(TieBreakText)
    /\ dmem0 = (0 :> 5)
    /\ EX_MEM.instr = program[4]
    /\ MEM_WB.instr = program[3]
    /\ MEM_WB.wb_val = 15
    /\ last_events[1].fwd_a = "EX/MEM"
    /\ last_events[1].fwd_b = "EX/MEM"
    /\ EX_MEM.alu = 30

----------------------------------------------------------------------------
(* C29: with forwarding disabled a decode stall occurs in a cycle iff      *)
(* ID/EX, EX/MEM or MEM/WB holds a register-writing instruction (add, sub, *)
(* lw) with a non-zero destination that the non-no-op IF/ID instruction    *)
(* reads; the reason is RAW vs EX, RAW vs MEM or RAW vs WB for the         *)
(* youngest matching producer; every EX operand is the register-file value *)
(* read at decode, with forwarding source none.                            *)
Produces(latch) ==
    /\ latch.rd # 0
    /\ WritesReg(latch, latch.rd)
    /\ latch.rd \in SourceRegs(IF_ID.instr)

YoungestProducer ==
    IF Produces(ID_EX) THEN "RAW vs EX"
    ELSE IF Produces(EX_MEM) THEN "RAW vs MEM"
    ELSE IF Produces(MEM_WB) THEN "RAW vs WB"
    ELSE ""

RawStalls ==
    ~forwarding =>
        /\ stall_decode <=> YoungestProducer # ""
        /\ _detect_stall_decode.reason = YoungestProducer

\* what EX computes from the values read at decode
DecodedResult(latch) ==
    IF ID_EX.instr.op = "add" THEN latch.alu = ID_EX.val1 + ID_EX.val2
    ELSE IF ID_EX.instr.op = "sub" THEN latch.alu = ID_EX.val1 - ID_EX.val2
    ELSE IF ID_EX.instr.op = "lw" THEN latch.alu = ID_EX.val1 + ID_EX.instr.imm[1]
    ELSE IF ID_EX.instr.op = "sw"
    THEN /\ latch.alu = ID_EX.val1 + ID_EX.instr.imm[1]
         /\ latch.store_val = ID_EX.val2
    ELSE IF ID_EX.instr.op = "beq"
    THEN latch.branch_taken = (ID_EX.val1 = ID_EX.val2)
    ELSE TRUE

NoForwardingStep == cycle' = cycle + 1 /\ ~forwarding

C29_NoForwardingStalls ==
    /\ []RawStalls
    /\ [][NoForwardingStep =>
            /\ last_events'[1].fwd_a = "none"
            /\ last_events'[1].fwd_b = "none"
            /\ last_events'[1].stall_reason = YoungestProducer
            /\ DecodedResult(EX_MEM')]_vars

\* the consumer, already held once for a producer in ID/EX, is held for
\* the producer now in EX/MEM
C29_Witness ==
    /\ ~forwarding
    /\ stall_decode
    /\ ~Produces(ID_EX)
    /\ Produces(EX_MEM)
    /\ _detect_stall_decode.reason = "RAW vs MEM"
    /\ Count(stall_breakdown, "RAW vs EX") >= 1

----------------------------------------------------------------------------
(* C30: one-step-behind latch discipline.  In every step the instruction   *)
(* in MEM/WB after the step is the one that was in EX/MEM before it, the   *)
(* one in EX/MEM after the step is the one that was in ID/EX before it,    *)
(* and ID/EX after the step is a no-op or the instruction that was in      *)
(* IF/ID.  No instruction skips a stage, nothing at or beyond ID/EX is     *)
(* stalled or flushed, and instructions reach writeback in the order they  *)
(* entered ID/EX: each trace row repeats the ID and EX columns of the row  *)
(* before it one column further.                                           *)
AnyStep == cycle' = cycle + 1

LatchesShift ==
    /\ MEM_WB'.instr = EX_MEM.instr
    /\ MEM_WB'.pc = EX_MEM.pc
    /\ EX_MEM'.instr = ID_EX.instr
    /\ EX_MEM'.pc = ID_EX.pc
    /\ is_nop(ID_EX'.instr) \/ ID_EX'.instr = IF_ID.instr

RowsShift ==
    \A k \in 1..(Len(trace) - 1) :
        /\ trace[k + 1].EX = trace[k].ID
        /\ trace[k + 1].MEM = trace[k].EX
        /\ trace[k + 1].WB = trace[k].EX

C30_OneStepBehind ==
    /\ [][AnyStep => LatchesShift]_vars
    /\ []RowsShift

\* three instructions in ID/EX, EX/MEM and MEM/WB in program order
C30_Witness ==
    /\ program = parse_program(TieBreakText)
    /\ forwarding
    /\ ID_EX.instr = program[4]
    /\ EX_MEM.instr = program[3]
    /\ MEM_WB.instr = program[2]
    /\ Len(trace) >= 2

----------------------------------------------------------------------------
(* C31: step() changes data memory only when EX/MEM holds a sw at cycle    *)
(* start, and then only at that sw's effective address (base value plus    *)
(* immediate), which receives the sw's store value; every other address,   *)
(* and memory in every other cycle, is unchanged.  A lw reads the word at  *)
(* its effective address, or 0 when it was never written, and never        *)
(* creates a memory entry.                                                 *)
StoreWritesOneWord ==
    /\ DOMAIN dmem' = DOMAIN dmem \cup {EX_MEM.alu}
    /\ dmem'[EX_MEM.alu] = EX_MEM.store_val
    /\ \A a \in DOMAIN dmem \ {EX_MEM.alu} : dmem'[a] = dmem[a]

LoadReadsWord ==
    /\ MEM_WB'.wb_val = (IF EX_MEM.alu \in DOMAIN dmem THEN dmem[EX_MEM.alu] ELSE 0)
    /\ MEM_WB'.mem_read_val = MEM_WB'.wb_val

\* the address a lw or sw leaves EX with: base operand plus immediate
EffectiveAddress ==
    (IF forwarding THEN OperandA.val ELSE ID_EX.val1) + ID_EX.instr.imm[1]

C31_MemoryFrame ==
    [][AnyStep =>
        /\ EX_MEM.instr.op = "sw" => StoreWritesOneWord
        /\ EX_MEM.instr.op # "sw" => dmem' = dmem
        /\ EX_MEM.instr.op = "lw" => LoadReadsWord
        /\ ID_EX.instr.op \in {"lw", "sw"} => EX_MEM'.alu = EffectiveAddress]_vars

\* lw x1,0(x0); sw x2,1(x0) on an empty memory: the sw has written word 1,
\* the lw has left no entry at address 0
C31_Witness ==
    /\ program = parse_program(StraightText)
    /\ dmem0 = EmptyMap
    /\ MEM_WB.instr = program[2]
    /\ DOMAIN dmem = {1}
    /\ dmem[1] = 0

----------------------------------------------------------------------------
(* C32: in the trace of a hazard-free straight-line run, an instruction    *)
(* in the IF column of row c is in the ID column of row c+1, the EX column *)
(* of row c+2, the MEM column of row c+3 and the WB column of row c+4, and *)
(* no row shows the same instruction instance in two stage columns.  The   *)
(* lines of the program are pairwise different and none is a nop, so that  *)
(* a text in a column names one instance.                                  *)
(* The run keeps the switches and the memory set before its first cycle.   *)
DistinctLines ==
    /\ \A i \in DOMAIN program : ~is_nop(program[i])
    /\ \A i, j \in DOMAIN program : i # j => program[i].raw # program[j].raw

Column(c, st) == IF c <= Len(trace) THEN trace[c][st] ELSE "-"

Diagonal(c) ==
    LET text == trace[c].IF
    IN  /\ Column(c + 1, "ID") \in {text, "-"}
        /\ Column(c + 2, "EX") \in {text, "-"}
        /\ Column(c + 3, "MEM") \in {text, "-"}
        /\ Column(c + 4, "WB") \in {text, "-"}

OneColumnPerRow(c) ==
    \A s1, s2 \in Stages :
        (s1 # s2 /\ trace[c][s1] # "NOP") => trace[c][s1] # trace[c][s2]

C32_TraceDiagonal ==
    (HazardFree(program) /\ DistinctLines /\ ~structural_on /\ Undisturbed) =>
        \A c \in 1..Len(trace) :
            /\ trace[c].IF # "NOP" => Diagonal(c)
            /\ OneColumnPerRow(c)

----------------------------------------------------------------------------
(* C33: after every step in which IF/ID held a non-no-op instruction at    *)
(* cycle start, the event record of the cycle contains the hazard-detail   *)
(* record (producer pc, opcode and destination register from ID/EX;        *)
(* consumer opcode and read registers from IF/ID), whether or not the      *)
(* cycle stalled.                                                          *)
DecodingStep == cycle' = cycle + 1 /\ ~is_nop(IF_ID.instr)

C33_HazardDetailRecorded ==
    [][DecodingStep =>
        last_events'[1].hazard_detail = Some(hazard_detail)]_vars

----------------------------------------------------------------------------
(* C34: after reset() on an engine with a loaded program, without another  *)
(* load_program, the per-instruction status table again has one entry per  *)
(* program index, each unretired, so that the instructions retiring in the *)
(* following steps are recorded.  As a state property: the table always    *)
(* has exactly the program's indexes, and before the first step of a run   *)
(* no entry is marked retired.                                             *)
Unretired(entry) == ~entry.retired /\ entry.retire_cycle = None

C34_StatusRebuiltOnReset ==
    /\ DOMAIN inst_status = 0..(Len(program) - 1)
    /\ cycle = 0 => \A i \in DOMAIN inst_status : Unretired(inst_status[i])

----------------------------------------------------------------------------
(* C35 *)

SourceLines ==
    {SrcLw, SrcAdd, SrcAddUpper, SrcSwHex, SrcBeqLoop, SrcBeqNeg, SrcBeqFar,
     SrcBeqEnd, SrcBadReg, SrcBadOp, SrcBadArity, SrcBadAddr, SrcBadImm,
     SrcNopArgs}

\* the fixed operand count of each opcode
Arity(op) ==
    IF op = "nop" THEN 0
    ELSE IF op \in {"add", "sub", "beq"} THEN 3
    ELSE 2

OperandCount(ln) == Len(split(ln.text)) - 1

\* the failures the parser owes to a malformed instruction line
LineFailures ==
    {"Bad add format", "Bad sub format", "Bad lw format", "Bad sw format",
     "Bad beq format", "Bad lw address", "Bad sw address", "Unknown register",
     "invalid literal for int()", "Unsupported op", "Unknown label"}

\* C35: no loaded instruction comes from a source line whose operand count
\* differs from its opcode's arity, and every failure parse_program raises
\* for a malformed instruction line names the offending source line.
C35_RejectsAndNamesLine ==
    /\ \A i \in DOMAIN program : \A ln \in SourceLines :
           program[i].raw = ln.raw => OperandCount(ln) = Arity(program[i].op)
    /\ (parse_failure # None /\ parse_failure[1].error.msg \in LineFailures)
           => parse_failure[1].error.line # None
----------------------------------------------------------------------------
(* C36 *)

\* registers and memory after the first n instructions of a branch-free
\* program have executed in order
Prefix(n) == SeqRun(program, [i \in 0..(NumRegs - 1) |-> 0], dmem0, 0, n)

\* the instruction in EX works on the values its source registers have
\* after all older instructions
OperandsSequential ==
    LET ins == ID_EX.instr
        before == Prefix(ins.iid).regs
    IN  /\ ins.op \in {"add", "sub", "lw", "sw"}
            => a_val.val = before[ins.rs1[1]]
        /\ ins.op \in {"add", "sub", "sw"}
            => b_val.val = before[ins.rs2[1]]

\* the lw in MEM reads what the older stores have left at its address
LoadSequential ==
    EX_MEM.instr.op = "lw"
        => Get(dmem, EX_MEM.alu, 0)
               = Get(Prefix(EX_MEM.instr.iid).dmem, EX_MEM.alu, 0)

\* C36: for a branch-free program with the structural hazard off, forwarding
\* on or off, every EX operand is the value its source register has after
\* the older instructions, every lw reads the latest older sw to its address,
\* and the registers and memory of the drained pipeline are those of the
\* sequential in-order execution.  The run keeps the switches and the
\* memory set before its first cycle.
C36_BranchFreeRefinement ==
    (BranchFree /\ ~structural_on /\ Undisturbed) =>
        /\ OperandsSequential
        /\ LoadSequential
        /\ (cycle > 0 /\ Drained /\ Sequential.done)
               => (regs = Sequential.regs /\ dmem = Sequential.dmem)

\* lw x1,0(x0); add x2,x1,x1; sw x2,0(x1); lw x3,5(x0) drained on a memory
\* holding 5 at address 0: the sw wrote 10 to address 5 and the lw behind it
\* read that word, x1 = 5, x2 = 10, x3 = 10
C36_Witness ==
    /\ program = parse_program(StoreLoadText)
    /\ ~structural_on
    /\ dmem0 = (0 :> 5)
    /\ cycle > 0 /\ Drained
    /\ dmem = (0 :> 5 @@ 5 :> 10)
    /\ regs[1] = 5 /\ regs[2] = 10 /\ regs[3] = 10
    /\ regs = Sequential.regs
----------------------------------------------------------------------------
(* C37 *)

\* what the next cycle depends on, besides the program and the switches
Machine == <<pc, IF_ID, ID_EX, EX_MEM, MEM_WB, regs, dmem>>

\* a cycle of a branch-free program that has not drained
PendingStep == AnyStep /\ BranchFree /\ ~Drained /\ Undisturbed

\* C37: repeated step() takes every branch-free program to a drained state
\* under every configuration, so no cycle of a pipeline that has not drained
\* leaves pc, the four latches, the registers and the memory all as they
\* were (such a cycle repeats forever, with pc frozen and IF/ID held).
\* The run keeps the switches and the memory set before its first cycle.
C37_BranchFreeDrains == [][PendingStep => Machine' # Machine]_vars
----------------------------------------------------------------------------
(* C38 *)

\* EX/MEM holds a lw whose non-zero destination the instruction in ID/EX reads
LoadBehindReader ==
    /\ EX_MEM.instr.op = "lw"
    /\ EX_MEM.rd # 0
    /\ EX_MEM.rd \in SourceRegs(ID_EX.instr)

\* C38: with forwarding enabled no reachable state has EX/MEM holding a lw
\* with non-zero destination r while ID/EX holds an instruction that reads
\* r, so an EX operand is never selected past a lw in EX/MEM that produces it.
C38_NoLoadBehindReader ==
    forwarding =>
        /\ ~LoadBehindReader
        /\ \A r \in {ID_EX.rs1, ID_EX.rs2} :
               (EX_MEM.instr.op = "lw" /\ EX_MEM.rd = r /\ r # 0)
                   => is_nop(ID_EX.instr)

\* lw x1,0(x0); add x2,x1,x1, structural hazard on: the lw is in EX/MEM, the
\* add waits in IF/ID behind the bubble the stall put into ID/EX
C38_Witness ==
    /\ forwarding
    /\ structural_on
    /\ program = parse_program(LoadUseText)
    /\ EX_MEM.instr = program[1]
    /\ is_nop(ID_EX.instr)
    /\ IF_ID.instr = program[2]
    /\ Count(stall_breakdown, "lw-use") = 1
----------------------------------------------------------------------------
(* C39 *)

StallReasons == DecodeReasons \cup {"structural"}

HistogramTotal ==
    Count(stall_breakdown, "lw-use") + Count(stall_breakdown, "RAW vs EX")
        + Count(stall_breakdown, "RAW vs MEM") + Count(stall_breakdown, "RAW vs WB")
        + Count(stall_breakdown, "structural")

StallsAccounted ==
    /\ DOMAIN stall_breakdown \subseteq StallReasons
    /\ stalls = HistogramTotal

\* a cycle in which both the decode stall and the structural stall apply
DoubleStallStep == AnyStep /\ stall_decode /\ structural_stall

\* C39: in every reachable state the stall counter equals the sum of the
\* counts of the stall-reason histogram, whose reasons are lw-use, RAW vs EX,
\* RAW vs MEM, RAW vs WB and structural; a cycle with both a decode stall and
\* a structural stall adds two to the counter, one to the decode reason and
\* one to the structural reason.
C39_StallsAccounted ==
    /\ []StallsAccounted
    /\ [][DoubleStallStep =>
            /\ stalls' = stalls + 2
            /\ Count(stall_breakdown', _detect_stall_decode.reason)
                  = Count(stall_breakdown, _detect_stall_decode.reason) + 1
            /\ Count(stall_breakdown', "structural")
                  = Count(stall_breakdown, "structural") + 1]_vars

\* lw x1,0(x0); add x2,x1,x1 without forwarding, structural hazard on: the
\* add has waited for the lw in EX, and then for the lw in MEM while the lw
\* also held the memory port
C39_Witness ==
    /\ program = parse_program(LoadUseText)
    /\ ~forwarding /\ structural_on
    /\ stalls = 3
    /\ stall_breakdown = ("RAW vs EX" :> 1 @@ "RAW vs MEM" :> 1 @@ "structural" :> 1)
    /\ last_events[1].stall /\ last_events[1].structural_stall
====
